---- MODULE Spec2Model ----
(***************************************************************************)
(* A model of the concurrent test harness of rjtools.util                  *)
(* (src/src/rjtools/util/testing.py, and its predecessor src/testing.py).  *)
(*                                                                         *)
(* SpecModules is one call of run_modules: the calling thread, the pool of *)
(* module workers, the work queue, the two RLocks (redirect_lock and       *)
(* module_lock), the process-wide stream pair with the active Redirect,    *)
(* and the shared TestResults.                                             *)
(*                                                                         *)
(* The content of a test module (the kind and shape of each symbol, what   *)
(* a test body does, which expectations are declared) is read by the       *)
(* harness exactly once per test; the model draws each of these inputs at  *)
(* the step that reads it.                                                 *)
(***************************************************************************)
EXTENDS Integers, Sequences, FiniteSets, TLC

\* ---------------------------------------------------------------- bounds
\* Number of test modules in the moduleMap given to run_modules.
NumModules == 2
\* Number of test symbols declared in each module.
TestsPerModule == 2
\* Number of module worker threads that are modelled.
ModuleWorkers == 2

\* Largest number of packages in the packageMap given to run_packages.
NumPackages == 5
\* Largest number of TestResults handed to summarize_results.
MaxChildren == 3
\* Largest number of add_success / add_failure calls on one TestResults.
MaxAdds == 3

\* Number of test modules a package's run() imports.
ModulesPerPackage == 2

\* Number of threads that call redirect_output / restore_output.
NumCaptureThreads == 2
\* Largest number of Redirect objects that are created.
MaxCaptures == 3
\* Largest number of pieces of text in a captured stream given to check_output.
MaxOutput == 2
\* Largest number of characters in a text given to check_output.
MaxText == 3

\* ------------------------------------------------------------- constants
MODULE_THREAD_COUNT == 5
PACKAGE_THREAD_COUNT == 2
\* PACKAGE_THREAD_COUNT of the predecessor module, src/testing.py
LEGACY_PACKAGE_THREAD_COUNT == 4

\* ------------------------------------------------------------ identities
Main == 0
NoThread == -1
\* run_modules starts MODULE_THREAD_COUNT workers; a worker beyond the number
\* modelled only ever waits in q.get().
ModulePool == IF ModuleWorkers < MODULE_THREAD_COUNT THEN ModuleWorkers
              ELSE MODULE_THREAD_COUNT
Workers == 1..ModulePool
Modules == 1..NumModules
NoModule == 0
Packages == 1..NumPackages
NoPackage == 0

VARIABLES
    debug,          \* msg.DEBUG, set by init_testing from -g
    q,              \* run_modules: the Queue of modules
    unfinished,     \* q.unfinished_tasks, what q.join() waits on
    mainPc,         \* position of the thread that called run_modules
    mainI,          \* how many modules that thread has put on the queue
    wpc,            \* position of each module worker thread
    wmod,           \* the module a worker took from the queue
    widx,           \* index into the module's symbols (the for loop)
    cur,            \* the locals of run_test/run_subprocess/run_batch
    redirectLock,   \* redirect_lock, an RLock: owner and recursion count
    moduleLock,     \* module_lock, an RLock: owner and recursion count
    redirect,       \* the global `redirect`: NoThread is None, else the
                    \* thread that installed the Redirect
    sysStreams,     \* what sys.stdout/sys.stderr currently are
    fakeOut,        \* content of Redirect.fake_stdout
    fakeErr,        \* content of Redirect.fake_stderr
    results,        \* the TestResults shared by the module workers
    taken,          \* how often each module was taken from the queue
    started,        \* per module, the symbols whose test was started
    ended,          \* per module, the symbols whose test was counted
    failed          \* how many tests run_module counted as failed

vars == << debug, q, unfinished, mainPc, mainI, wpc, wmod, widx, cur, redirectLock,
           moduleLock, redirect, sysStreams, fakeOut, fakeErr, results,
           taken, started, ended, failed >>

\* TestResults.__init__: code = 0, total = 0, failures = 0
NewTestResults == [total |-> 0, failures |-> 0, code |-> 0]

\* Nothing has ended the process.
NotExited == -1

\* The state of one call of run_packages, and of run_suite around it.
VARIABLES
    legacy,         \* TRUE: run_packages of src/testing.py, FALSE: the one of
                    \* src/src/rjtools/util/testing.py
    pn,             \* len(packageMap)
    pq,             \* run_packages: the Queue of packages
    punfinished,    \* q.unfinished_tasks
    pmainPc,        \* position of the thread that called run_packages
    pmainI,         \* how many packages that thread has put on the queue
    ppc,            \* position of each package worker thread
    ppkg,           \* the package a worker took from the queue
    presults,       \* the `results` list run_package appends to
    ptaken,         \* how often each package was run
    pSummary,       \* the summary run_packages returns
    pexit           \* the status the process ended with, or NotExited

pvars == << legacy, pn, pq, punfinished, pmainPc, pmainI, ppc, ppkg, presults, ptaken,
           pSummary, pexit >>

\* No call of run_packages is in progress.
PackagesIdle ==
    /\ legacy = FALSE
    /\ pn = 0
    /\ pq = << >>
    /\ punfinished = 0
    /\ pmainPc = "idle"
    /\ pmainI = 0
    /\ ppc = << >>
    /\ ppkg = << >>
    /\ presults = << >>
    /\ ptaken = [p \in Packages |-> 0]
    /\ pSummary = NewTestResults
    /\ pexit = NotExited

\* The capture as redirect_output / restore_output leave it, for any callers.
VARIABLES
    cLock,          \* redirect_lock, an RLock: owner and recursion count
    cRedirect,      \* the global `redirect`: NoRedirect is None, else the
                    \* number of the Redirect object
    cStdout,        \* sys.stdout / sys.stderr: RealStreams, or the number of
                    \* the Redirect whose fake streams they are
    cObjs,          \* the Redirect objects in the order they were created:
                    \* what each saved as real_stdout / real_stderr
    cState          \* per calling thread: "running", or the exception that
                    \* ended it

cvars == << cLock, cRedirect, cStdout, cObjs, cState >>

\* redirect = None
NoRedirect == 0

\* The streams the process started with.
RealStreams == 0

CaptureThreads == 1..NumCaptureThreads

\* No capture was begun: redirect = None, redirect_lock = RLock().
CaptureIdle ==
    /\ cLock = [owner |-> NoThread, count |-> 0]
    /\ cRedirect = NoRedirect
    /\ cStdout = RealStreams
    /\ cObjs = << >>
    /\ cState = [t \in CaptureThreads |-> "running"]

\* One check of one channel of one test: what the fake stream holds, what
\* the module declares, and what check_output makes of it.
VARIABLES
    oRaw,           \* the content of the fake stream
    oDecl,          \* what the module declares for out_<suffix> / err_<suffix>
    oOutput,        \* the text get_output() returned
    oResult,        \* what check_output returned
    oPc             \* "captured", "restored", "checked"

\* The same check with the texts spelled out, a text being the sequence of
\* its characters.
VARIABLES
    tKind,          \* the type of the declared value: "literal" (str), "grep"
                    \* (Grep) or "json" (JSONFilter); "result" and "code" for
                    \* a call of check_result and of check_code
    tExpected,      \* the declared text: the string, Grep.search, JSONFilter.text;
                    \* the declared result_<suffix> / code_<suffix>
    tRemove,        \* JSONFilter.remove
    tActual,        \* the `output` argument
    tResult,        \* what check_output returned: TRUE, FALSE, or the name of
                    \* the exception that left it
    tPc             \* "call", then "returned"

tvars == << tKind, tExpected, tRemove, tActual, tResult, tPc >>

\* The argument lists of the run_ and batch_ tests of one module, over the
\* calls of run_module for it. A Python list is an object: a name bound to
\* it sees what an append through another name did.
VARIABLES
    aKind,          \* per test: "run", "batch_str" (the value is the text of
                    \* the commands), "batch_tuple" (a list and the commands)
    aCaller,        \* the commandPrefix handed to run_module
    aExt,           \* run_module's extendedCommandPrefix
    aDecl,          \* per test: the list the module's symbol is bound to
    aIdx,           \* the test the for loop is at, 0 outside run_module
    aCalls,         \* calls of run_module so far
    aLast           \* the test last run and the args handed to subprocess.run

avars == << aKind, aCaller, aExt, aDecl, aIdx, aCalls, aLast >>

\* The three checks a runner makes of one test, over one call of run_test or
\* of check_process_result.
VARIABLES
    rCall,          \* the call: the runner, what the module declares for the
                    \* test (result_ / code_, out_, err_) and what the test
                    \* gave (testResult / returncode, out, errout)
    rDone,          \* the checks that have returned, in order, each with what
                    \* it returned
    rResult,        \* the local `result`
    rPc             \* the check the runner is about to call, "returned" after
                    \* `return result`, "raised" when an exception left it

rvars == << rCall, rDone, rResult, rPc >>

ovars == << oRaw, oDecl, oOutput, oResult, oPc, tvars, avars, rvars >>

\* No check of chunks is in progress.
OutputIdle ==
    /\ oRaw = << >>
    /\ oDecl = "absent"
    /\ oOutput = << >>
    /\ oResult = FALSE
    /\ oPc = "idle"

\* No check of texts is in progress.
TextIdle ==
    /\ tKind = "literal"
    /\ tExpected = << >>
    /\ tRemove = {}
    /\ tActual = << >>
    /\ tResult = FALSE
    /\ tPc = "idle"

\* commandPrefix=None
NoPrefix == [given |-> FALSE, list |-> << >>]

\* commandPrefix=[...]
Prefix(l) == [given |-> TRUE, list |-> l]

ArgTests == 1..TestsPerModule

\* The argument list a run_ or batch_ symbol is given in the module's source.
DeclaredArgs(t) == << IF t = 1 THEN "a1" ELSE "a2" >>

\* No subprocess test has run.
ArgsIdle ==
    /\ aKind = [t \in ArgTests |-> "run"]
    /\ aCaller = NoPrefix
    /\ aExt = NoPrefix
    /\ aDecl = [t \in ArgTests |-> DeclaredArgs(t)]
    /\ aIdx = 0
    /\ aCalls = 0
    /\ aLast = [test |-> 0, args |-> << >>]

\* No runner is checking a test.
NoCall == [runner |-> "none", decl |-> << >>, actual |-> << >>]

VerdictIdle ==
    /\ rCall = NoCall
    /\ rDone = << >>
    /\ rResult = TRUE
    /\ rPc = "idle"

\* No check is in progress.
CheckIdle == OutputIdle /\ TextIdle /\ ArgsIdle /\ VerdictIdle

\* TestResults objects built by calls of add_success / add_failure, and
\* their summary.
VARIABLES
    sChildren,      \* the TestResults objects, in the order they were created
    sSummary,       \* what summarize_results returned
    sPc             \* "build", then "done" once summarize_results was called

svars == << sChildren, sSummary, sPc >>

\* No TestResults is being built.
SummaryIdle ==
    /\ sChildren = << >>
    /\ sSummary = NewTestResults
    /\ sPc = "idle"

\* ------------------------------------------------------------- the module
\* The test symbols of a module in the order they are defined in it. A name
\* is its alphabetical rank: like test_order_first / test_next_order of the
\* repository's own test module, the symbols are defined in an order that is
\* not the alphabetical one.
DeclaredSymbols(m) == [i \in 1..TestsPerModule |-> TestsPerModule + 1 - i]

\* The same symbols in alphabetical order, as an iteration over
\* sorted(vars(mod)) would yield them.
AlphabeticalSymbols(m) == [i \in 1..TestsPerModule |-> i]

\* run_module: `symNames = vars(mod)`, iterated by the for loop. A module's
\* namespace is a dict and keeps insertion order.
SymNames(m) == DeclaredSymbols(m)

\* ------------------------------------------------------------------ RLock
FreeLock == [owner |-> NoThread, count |-> 0]

\* RLock.acquire(): blocks while another thread owns the lock.
CanAcquire(lock, t) == lock.owner \in {NoThread, t}

Acquire(lock, t) == [owner |-> t, count |-> lock.count + 1]

\* RLock.release() by the owner.
Release(lock, t) ==
    IF lock.count = 1 THEN FreeLock ELSE [owner |-> t, count |-> lock.count - 1]

\* --------------------------------------------------------------- streams
\* A piece of text written to a stream: who wrote it and what it is.
\*   "json"  a line holding a JSON document "debug" a line starting "DEBUG: "
\*   "part"  output without a newline
\*   "exc"   run_test's "Exception occurred during ..." line
\*   "msg"   a line printed by the harness (err, info, warn, print)
Chunk(t, k) == [who |-> t, kind |-> k]

\* print(..., file=sys.stdout): sys.stdout is looked up at the time of the
\* call, so the text lands in the fake stream while a Redirect is installed.
OutAfter(chunks) == IF sysStreams = "fake" THEN fakeOut \o chunks ELSE fakeOut

ErrAfter(chunks) == IF sysStreams = "fake" THEN fakeErr \o chunks ELSE fakeErr

\* cull_debug_lines over the lines readlines() yields: a line runs up to and
\* including the first chunk that ends with a newline, and it is dropped iff
\* it starts with "DEBUG: ".
RECURSIVE CullFrom(_, _, _, _)
CullFrom(s, i, atStart, dropping) ==
    IF i > Len(s) THEN << >>
    ELSE LET c == s[i]
             drop == IF atStart THEN c.kind = "debug" ELSE dropping
         IN  (IF drop THEN << >> ELSE << c >>)
                 \o CullFrom(s, i + 1, c.kind # "part", drop)

cull_debug_lines(s) == CullFrom(s, 1, TRUE, FALSE)

\* cull_debug_lines printed at least one line to the stream it was given.
HasDebugLine(s) == Len(cull_debug_lines(s)) < Len(s)

\* ------------------------------------------------------- locals of a test
\*   kind        which runner handles the symbol
\* (a local is kept only as long as the code still reads it)
\*   exc         run_test: `exception is not None`
\*   testResult  run_test: what fn() returned ("None" after an exception)
\*   out, err    what restore_output() returned
\*   declNone    the module declares result_<suffix> = None
\*   ioOk        both check_output calls returned True
\*   result      what the runner returns to run_module
\*   tmp         the value read by a `+= 1` of TestResults
Fresh == [kind |-> "none", exc |-> FALSE, testResult |-> "unset",
          out |-> << >>, err |-> << >>, declNone |-> FALSE, ioOk |-> TRUE,
          result |-> TRUE, tmp |-> 0]

\* A worker thread that ended with an uncaught exception:
\*   dead_typecheck  ValueError raised by type_check
\*   dead_exit       an exception of the test body that `except Exception`
\*                   does not match
\*   dead_join       TypeError raised by "' '".join(args) in run_batch
\*   dead_launch     OSError raised by subprocess.run
\*   dead_release    RuntimeError raised by RLock.release() of a lock the
\*                   thread does not own
\*   dead_assert     AssertionError raised by restore_output
DeadPcs == {"dead_typecheck", "dead_exit", "dead_join", "dead_launch",
            "dead_release", "dead_assert"}

\* ------------------------------------------------------------------- Init
ModulesAtStart ==
    /\ debug \in BOOLEAN
    /\ q = << >>
    /\ unfinished = 0
    /\ mainPc = "start"
    /\ mainI = 0
    /\ wpc = [w \in Workers |-> "idle"]
    /\ wmod = [w \in Workers |-> NoModule]
    /\ widx = [w \in Workers |-> 0]
    /\ cur = [w \in Workers |-> Fresh]
    /\ redirectLock = FreeLock
    /\ moduleLock = FreeLock
    /\ redirect = NoThread
    /\ sysStreams = "real"
    /\ fakeOut = << >>
    /\ fakeErr = << >>
    /\ results = NewTestResults
    /\ taken = [m \in Modules |-> 0]
    /\ started = [m \in Modules |-> << >>]
    /\ ended = [m \in Modules |-> << >>]
    /\ failed = 0

InitModules == ModulesAtStart /\ PackagesIdle /\ SummaryIdle /\ CaptureIdle /\ CheckIdle

\* ---------------------------------------------------------------- frames
Goto(w, pc) == wpc' = [wpc EXCEPT ![w] = pc]

SetCur(w, r) == cur' = [cur EXCEPT ![w] = r]

\* A step that writes nothing to the stream pair.
Silent == UNCHANGED << fakeOut, fakeErr, sysStreams >>

\* print(..., file=sys.stdout) and print(..., file=sys.stderr)
Write(outChunks, errChunks) == /\ fakeOut' = OutAfter(outChunks)
                               /\ fakeErr' = ErrAfter(errChunks)
                               /\ UNCHANGED sysStreams

\* dbg(msg): prints "DEBUG: ..." to sys.stdout when DEBUG is set, and takes
\* no lock.
Dbg(t) == IF debug THEN Write(<< Chunk(t, "debug") >>, << >>) ELSE Silent

\* An iteration that ends with the same symbol still to be run.
TestAgain(w) ==
    /\ ended' = [ended EXCEPT ![wmod[w]] = Append(@, SymNames(wmod[w])[widx[w]])]
    /\ failed' = IF cur[w].result THEN failed ELSE failed + 1
    /\ UNCHANGED widx
    /\ SetCur(w, Fresh)
    /\ Goto(w, "next")

\* The end of one iteration of run_module's for loop, after the outcome was
\* counted: the test has its one outcome, pass or fail.
TestEnd(w) ==
    /\ ended' = [ended EXCEPT ![wmod[w]] = Append(@, SymNames(wmod[w])[widx[w]])]
    /\ failed' = IF cur[w].result THEN failed ELSE failed + 1
    /\ widx' = [widx EXCEPT ![w] = @ + 1]
    /\ SetCur(w, Fresh)
    /\ Goto(w, "next")

\* ------------------------------------------------- run_modules, the caller
\* redirect_lock.acquire(); print("%s: running tests"); release()
MainHeader ==
    /\ mainPc = "start"
    /\ CanAcquire(redirectLock, Main)
    /\ Write(<< Chunk(Main, "msg") >>, << >>)
    /\ mainPc' = "spawn"
    /\ UNCHANGED << pvars, svars, cvars, ovars, failed, debug, q, unfinished, mainI, wpc, wmod, widx, cur,
                    redirectLock, moduleLock, redirect, results, taken,
                    started, ended >>

\* for threadNum in range(MODULE_THREAD_COUNT): Thread(...).start()
MainSpawn ==
    /\ mainPc = "spawn"
    /\ wpc' = [w \in Workers |-> "get"]
    /\ mainPc' = "put"
    /\ Silent
    /\ UNCHANGED << pvars, svars, cvars, ovars, failed, debug, q, unfinished, mainI, wmod, widx, cur,
                    redirectLock, moduleLock, redirect, results, taken,
                    started, ended >>

\* for testModule in moduleMap.values(): q.put(testModule)
MainPut ==
    /\ mainPc = "put"
    /\ IF mainI < NumModules
       THEN /\ q' = Append(q, mainI + 1)
            /\ unfinished' = unfinished + 1
            /\ mainI' = mainI + 1
            /\ UNCHANGED mainPc
       ELSE /\ mainPc' = "join"
            /\ UNCHANGED << q, unfinished, mainI >>
    /\ Silent
    /\ UNCHANGED << pvars, svars, cvars, ovars, failed, debug, wpc, wmod, widx, cur, redirectLock, moduleLock,
                    redirect, results, taken, started, ended >>

\* A join that returns while tasks are still being worked on.
MainJoinEarly ==
    /\ mainPc = "join"
    /\ mainPc' = "print"
    /\ Silent
    /\ UNCHANGED << pvars, svars, cvars, ovars, failed, debug, q, unfinished, mainI, wpc, wmod, widx, cur,
                    redirectLock, moduleLock, redirect, results, taken,
                    started, ended >>

\* q.join(): returns once every task put was marked done.
MainJoin ==
    /\ mainPc = "join"
    /\ unfinished = 0
    /\ mainPc' = "print"
    /\ Silent
    /\ UNCHANGED << pvars, svars, cvars, ovars, failed, debug, q, unfinished, mainI, wpc, wmod, widx, cur,
                    redirectLock, moduleLock, redirect, results, taken,
                    started, ended >>

\* results.print() under redirect_lock; return results
MainPrint ==
    /\ mainPc = "print"
    /\ CanAcquire(redirectLock, Main)
    /\ Write(<< Chunk(Main, "msg") >>, << >>)
    /\ mainPc' = "done"
    /\ UNCHANGED << pvars, svars, cvars, ovars, failed, debug, q, unfinished, mainI, wpc, wmod, widx, cur,
                    redirectLock, moduleLock, redirect, results, taken,
                    started, ended >>

\* ------------------------------------------------ run_modules, the worker
\* A queue whose get() hands out the head but leaves it queued.
QueueKeepsHead(qq) == qq

\* The queue after q.get() returned its head.
QueueAfterGet(qq) == Tail(qq)

\* mod = q.get(), which blocks while the queue is empty; then run_module up
\* to its for loop: dbg("Running module: ..."). The workers are
\* interchangeable: the waiting one with the lowest number stands for
\* whichever thread the queue wakes.
Get(w) ==
    /\ wpc[w] = "get"
    /\ \A v \in Workers : v < w => wpc[v] # "get"
    /\ q # << >>
    /\ wmod' = [wmod EXCEPT ![w] = Head(q)]
    /\ q' = QueueAfterGet(q)
    /\ taken' = [taken EXCEPT ![Head(q)] = @ + 1]
    /\ widx' = [widx EXCEPT ![w] = 1]
    /\ Goto(w, "next")
    /\ Dbg(w)
    /\ UNCHANGED << pvars, svars, cvars, ovars, failed, debug, unfinished, mainPc, mainI, cur, redirectLock,
                    moduleLock, redirect, results, started, ended >>

\* ------------------------------------------------------------- run_module
AtSymbol(w) == /\ wpc[w] = "next"
               /\ widx[w] <= Len(SymNames(wmod[w]))

Begin(w) == started' = [started EXCEPT ![wmod[w]] =
                            Append(@, SymNames(wmod[w])[widx[w]])]

\* The for loop is exhausted: run_module returns and the worker calls
\* q.task_done().
Finish(w) ==
    /\ wpc[w] = "next"
    /\ widx[w] > Len(SymNames(wmod[w]))
    /\ unfinished' = unfinished - 1
    /\ wmod' = [wmod EXCEPT ![w] = NoModule]
    /\ widx' = [widx EXCEPT ![w] = 0]
    /\ Goto(w, "get")
    /\ Silent
    /\ UNCHANGED << pvars, svars, cvars, ovars, failed, debug, q, mainPc, mainI, cur, redirectLock, moduleLock,
                    redirect, results, taken, started, ended >>

\* A skip that counts the disabled symbol as a test that passed.
SkipCounted(w) ==
    /\ AtSymbol(w)
    /\ Dbg(w)
    /\ widx' = [widx EXCEPT ![w] = @ + 1]
    /\ results' = [results EXCEPT !.total = @ + 1]
    /\ UNCHANGED << pvars, svars, cvars, ovars, failed, debug, q, unfinished, mainPc, mainI, wpc, wmod, cur,
                    redirectLock, moduleLock, redirect, taken, started, ended >>

\* `if symName in disabled: dbg("Skipping disabled test"); continue`
SkipDisabled(w) ==
    /\ AtSymbol(w)
    /\ Dbg(w)
    /\ widx' = [widx EXCEPT ![w] = @ + 1]
    /\ UNCHANGED << pvars, svars, cvars, ovars, failed, debug, q, unfinished, mainPc, mainI, wpc, wmod, cur,
                    redirectLock, moduleLock, redirect, results, taken,
                    started, ended >>

\* --------------------------------------------------------------- run_test
\* A redirect_output() that installs its Redirect without waiting for the
\* lock.
RedirectWithoutWaiting(w) == TRUE

\* redirect_output(): redirect_lock.acquire(), which blocks while another
\* thread holds the lock.
RedirectOutputMayProceed(w) == CanAcquire(redirectLock, w)

\* A test_ symbol: run_test up to and including redirect_output().
\* type_check(fn, callable) raises ValueError for a symbol that is not
\* callable, and nothing in the worker catches it. redirect_output()
\* acquires redirect_lock and sets redirect = Redirect(), whose constructor
\* swaps sys.stdout and sys.stderr for fresh in-memory streams.
RedirectOutput(w) ==
    /\ AtSymbol(w)
    /\ \E isCallable \in BOOLEAN :
          IF isCallable
          THEN /\ RedirectOutputMayProceed(w)
               /\ redirectLock' = Acquire(redirectLock, w)
               /\ redirect' = w
               /\ sysStreams' = "fake"
               /\ fakeOut' = << >>
               /\ fakeErr' = << >>
               /\ Begin(w)
               /\ Goto(w, "body")
          ELSE /\ Goto(w, "dead_typecheck")
               /\ Silent
               /\ UNCHANGED << redirectLock, redirect, started >>
    /\ SetCur(w, [Fresh EXCEPT !.kind = "test"])
    /\ UNCHANGED << pvars, svars, cvars, ovars, failed, debug, q, unfinished, mainPc, mainI, wmod, widx,
                    moduleLock, results, taken, ended >>

\* What the body of a test function prints to sys.stdout: nothing, or a
\* line holding a JSON document.
BodyOut(w, o) == IF o = "none" THEN << >> ELSE << Chunk(w, o) >>

\* An except clause that prints nothing.
NoExceptLine(w) == << >>

\* An except clause that leaves a truthy testResult.
ExceptResultTruthy == "True"

\* The except clause of run_test prints the "Exception occurred during" line
\* to sys.stderr ...
ExceptLine(w) == << Chunk(w, "exc") >>

\* ... and sets testResult = None.
ExceptResult == "None"

\* restore_output(): redirect.restore() puts the real streams back,
\* redirect.get_output() reads the fake ones with the debug lines culled,
\* redirect = None, redirect_lock.release().
Restored(w, outcome, fo, fe) ==
    /\ sysStreams' = "real"
    /\ SetCur(w, [cur[w] EXCEPT
                    !.exc = (outcome = "raise"),
                    !.testResult = IF outcome = "raise" THEN ExceptResult ELSE outcome,
                    !.out = cull_debug_lines(fo),
                    !.err = cull_debug_lines(fe)])
    /\ fakeOut' = << >>
    /\ fakeErr' = << >>
    /\ redirect' = NoThread
    /\ IF redirectLock.owner = w
       THEN /\ redirectLock' = Release(redirectLock, w)
            /\ Goto(w, "mlock")
       ELSE /\ Goto(w, "dead_release")
            /\ UNCHANGED redirectLock

\* testResult = fn() inside try / except Exception, then restore_output().
\*   "True", "False", "None"  fn returns that value
\*   "raise"  fn raises an exception derived from Exception
\*   "exit"   fn raises one that is not (SystemExit from sys.exit(),
\*            KeyboardInterrupt): the except clause does not match, the
\*            exception leaves run_test, run_module and the worker function,
\*            and the thread ends
TestBody(w) ==
    /\ wpc[w] = "body"
    /\ \E o \in {"none", "json"},
          outcome \in {"True", "False", "None", "raise", "exit"} :
          LET fo == OutAfter(BodyOut(w, o))
              fe == ErrAfter(IF outcome = "raise" THEN ExceptLine(w) ELSE << >>)
          IN  IF outcome = "exit"
              THEN /\ fakeOut' = fo
                   /\ fakeErr' = fe
                   /\ Goto(w, "dead_exit")
                   /\ UNCHANGED << cur, sysStreams, redirect, redirectLock >>
              ELSE IF redirect = NoThread
              THEN /\ fakeOut' = fo
                   /\ fakeErr' = fe
                   /\ Goto(w, "dead_assert")
                   /\ UNCHANGED << cur, sysStreams, redirect, redirectLock >>
              ELSE Restored(w, outcome, fo, fe)
    /\ UNCHANGED << pvars, svars, cvars, ovars, failed, debug, q, unfinished, mainPc, mainI, wmod, widx,
                    moduleLock, results, taken, started, ended >>

\* --------------------------------------------- run_subprocess, run_batch
\* A run_ symbol: run_subprocess up to its module_lock.acquire().
\*   "badtype"   the symbol (or commandPrefix) is not a list: type_check raises
\*   "nonstr"    the list holds a value shlex.join rejects: TypeError is
\*               caught and the failure is reported under module_lock
\*   "nolaunch"  dbg(...), then subprocess.run raises (OSError: no such program;
\*               TypeError: a None or 0 that shlex.quote read as an empty string)
\*   "ok"        dbg("Running subprocess: ..."), subprocess.run(...)
StartSubprocess(w) ==
    /\ AtSymbol(w)
    /\ \E shape \in {"ok", "badtype", "nonstr", "nolaunch"} :
          CASE shape = "badtype" ->
                  /\ Goto(w, "dead_typecheck")
                  /\ SetCur(w, [Fresh EXCEPT !.kind = "run"])
                  /\ Silent
                  /\ UNCHANGED started
            [] shape = "nonstr" ->
                  /\ Goto(w, "mlock")
                  /\ SetCur(w, [Fresh EXCEPT !.kind = "run_unsupported"])
                  /\ Silent
                  /\ Begin(w)
            [] shape = "nolaunch" ->
                  /\ Goto(w, "dead_launch")
                  /\ SetCur(w, [Fresh EXCEPT !.kind = "run"])
                  /\ Dbg(w)
                  /\ Begin(w)
            [] shape = "ok" ->
                  /\ Goto(w, "mlock")
                  /\ SetCur(w, [Fresh EXCEPT !.kind = "run"])
                  /\ Dbg(w)
                  /\ Begin(w)
    /\ UNCHANGED << pvars, svars, cvars, ovars, failed, debug, q, unfinished, mainPc, mainI, wmod, widx,
                    redirectLock, moduleLock, redirect, results, taken, ended >>

\* A batch_ symbol: run_batch up to its module_lock.acquire().
\*   "badtype"   the value is neither a str nor a tuple, or it is a str and
\*               commandPrefix is None: type_check raises
\*   "noargs"    the value is a str and commandPrefix is empty: run_batch
\*               is about to call err(...) and `return False`
\*   "nonstr"    args holds a non-string: "' '".join(args) raises TypeError
\*   "nolaunch"  dbg(...), then subprocess.run raises
\*   "ok"        dbg("Running batch process: ..."), subprocess.run(...)
StartBatch(w) ==
    /\ AtSymbol(w)
    /\ \E shape \in {"ok", "badtype", "noargs", "nonstr", "nolaunch"} :
          CASE shape = "badtype" ->
                  /\ Goto(w, "dead_typecheck")
                  /\ Silent
                  /\ UNCHANGED started
            [] shape = "noargs" ->
                  /\ Goto(w, "err_batch")
                  /\ Silent
                  /\ Begin(w)
            [] shape = "nonstr" ->
                  /\ Goto(w, "dead_join")
                  /\ Silent
                  /\ UNCHANGED started
            [] shape = "nolaunch" ->
                  /\ Goto(w, "dead_launch")
                  /\ Dbg(w)
                  /\ Begin(w)
            [] shape = "ok" ->
                  /\ Goto(w, "mlock")
                  /\ Dbg(w)
                  /\ Begin(w)
    /\ SetCur(w, [Fresh EXCEPT !.kind = "batch"])
    /\ UNCHANGED << pvars, svars, cvars, ovars, failed, debug, q, unfinished, mainPc, mainI, wmod, widx,
                    redirectLock, moduleLock, redirect, results, taken, ended >>

\* run_batch: err("Cannot run a batch command in test ... with no
\* arguments"); return False. module_lock was not acquired.
ErrBatch(w) ==
    /\ wpc[w] = "err_batch"
    /\ Write(<< >>, << Chunk(w, "msg") >>)
    /\ SetCur(w, [Fresh EXCEPT !.result = FALSE])
    /\ Goto(w, "print_result")
    /\ UNCHANGED << pvars, svars, cvars, ovars, failed, debug, q, unfinished, mainPc, mainI, wmod, widx,
                    redirectLock, moduleLock, redirect, results, taken,
                    started, ended >>

\* ----------------------------------------------------------- expectations
\* What a module declares for result_<suffix>.
ResultDecls == {"absent", "None", "True", "False"}

\* What a module declares for out_<suffix> / err_<suffix>:
\*   "absent"  nothing           "own"    exactly what the test itself writes
\*   "other"   some other text   "json"   a JSONFilter over what the test writes
OutputDecls == {"absent", "own", "other", "json"}

\* What a module declares for code_<suffix>.
CodeDecls == {"absent", "0", "1"}

\* Python values, written as repr() prints them.
PyValues == {"None", "True", "False", "0", "1", "2", "''", "'a'"}

\* `not value`: None, False, 0, the empty string and the empty tuple are
\* falsy.
PyNot(value) == value \in {"None", "False", "0", "''", "()"}

\* `a != b`: bool is a subclass of int, so True == 1 and False == 0; values
\* of other types differ unless they are the same value.
PyNotEqual(a, b) ==
    LET AsInt(v) == CASE v = "True" -> "1" [] v = "False" -> "0" [] OTHER -> v
    IN  AsInt(a) # AsInt(b)

\* A check_result that asks for a truthy result whatever the module declares.
check_result_truthy(decl, testResult) == ~PyNot(testResult)

\* check_result: `if expectedVarname in mod.__dict__: if testResult !=
\* expectedValue: ... checkResult = False`, `elif not testResult: ...
\* checkResult = False`.
check_result(decl, testResult) ==
    IF decl # "absent" THEN ~PyNotEqual(testResult, decl) ELSE ~PyNot(testResult)

\* check_code: `if expectedVarname in mod.__dict__: if code != expectedValue:
\* ... result = False`, `elif code != 0: ... result = False`.
check_code(decl, code) ==
    IF decl # "absent" THEN ~PyNotEqual(code, decl) ELSE ~PyNotEqual(code, "0")

\* The output holds nothing but what thread t wrote.
OnlyOwn(output, t) == \A i \in 1..Len(output) : output[i].who = t

\* json.loads accepts the output: it is one JSON document and nothing else.
ValidJSON(output) == Len(output) = 1 /\ output[1].kind = "json"

\* check_output's JSONFilter branch caught json.JSONDecodeError.
InvalidJSON(decl, output) == decl = "json" /\ ~ValidJSON(output)

\* A check_output that, with nothing declared, accepts whatever the test
\* itself wrote.
check_output_lenient(decl, output, t) ==
    CASE decl = "absent" -> OnlyOwn(output, t)
      [] decl = "own"    -> OnlyOwn(output, t)
      [] decl = "json"   -> ValidJSON(output) /\ OnlyOwn(output, t)
      [] OTHER           -> FALSE

\* check_output, for the output captured for a test of thread t.
check_output(decl, output, t) ==
    CASE decl = "absent" -> Len(output) = 0
      [] decl = "own"    -> OnlyOwn(output, t)
      [] decl = "json"   -> ValidJSON(output) /\ OnlyOwn(output, t)
      [] OTHER           -> FALSE

\* check_output calls print_expected_actual_mismatch.
Mismatch(decl, output, t) ==
    ~check_output(decl, output, t) /\ ~InvalidJSON(decl, output)

\* ----------------------------------------------------- the checking steps
\* module_lock.acquire() ("matched to release() after print_result in
\* caller"), which blocks while another thread holds the lock. The checks
\* that follow report a mismatch through print_divider / print_error, which
\* acquire redirect_lock around their write.
Locked(w, reports) ==
    /\ CanAcquire(moduleLock, w)
    /\ reports => CanAcquire(redirectLock, w)
    /\ moduleLock' = Acquire(moduleLock, w)

\* Where a runner goes after its checks: check_output's JSONFilter branch
\* calls err("Invalid JSON supplied ...") before it returns False.
AfterChecks(badJSON) == IF badJSON THEN "err_json" ELSE "print_result"

\* run_test from module_lock.acquire(): check_result, check_output of
\* stdout, check_output of stderr, print_exception when debugging.
Checks(w) ==
    /\ wpc[w] = "mlock"
    /\ cur[w].kind = "test"
    /\ \E resDecl \in ResultDecls, outDecl \in OutputDecls, errDecl \in OutputDecls :
          LET c      == cur[w]
              resOk  == check_result(resDecl, c.testResult)
              outOk  == check_output(outDecl, c.out, w)
              errOk  == check_output(errDecl, c.err, w)
              badJSON == InvalidJSON(outDecl, c.out) \/ InvalidJSON(errDecl, c.err)
              reports == \/ ~resOk
                         \/ Mismatch(outDecl, c.out, w)
                         \/ Mismatch(errDecl, c.err, w)
                         \/ (debug /\ c.exc)
          IN  /\ Locked(w, reports)
              /\ SetCur(w, [Fresh EXCEPT !.exc = c.exc,
                                         !.declNone = (resDecl = "None"),
                                         !.ioOk = outOk /\ errOk,
                                         !.result = resOk /\ outOk /\ errOk])
              /\ Goto(w, AfterChecks(badJSON))
    /\ Silent
    /\ UNCHANGED << pvars, svars, cvars, ovars, failed, debug, q, unfinished, mainPc, mainI, wmod, widx,
                    redirectLock, redirect, results, taken, started, ended >>

\* What the child process printed to its stdout. Its stderr is left out: the
\* child writes nothing to it and the module declares no err_<suffix>, so
\* the second check_output call of check_process_result returns True.
ChildOut(w, o) == IF o = "none" THEN << >> ELSE << Chunk(w, o) >>

\* run_subprocess / run_batch from module_lock.acquire():
\* check_process_result, which culls the debug lines of the child's output
\* (printing them to sys.stdout), then check_code and check_output twice.
CheckProcess(w) ==
    /\ wpc[w] = "mlock"
    /\ cur[w].kind \in {"run", "batch"}
    /\ \E o \in {"none", "json", "debug"}, code \in {"0", "1"},
          codeDecl \in CodeDecls, outDecl \in OutputDecls :
          LET raw    == ChildOut(w, o)
              out    == cull_debug_lines(raw)
              codeOk == check_code(codeDecl, code)
              outOk  == check_output(outDecl, out, w)
              errOk  == check_output("absent", << >>, w)
              badJSON == InvalidJSON(outDecl, out)
              reports == \/ ~codeOk
                         \/ Mismatch(outDecl, out, w)
          IN  /\ Locked(w, reports)
              /\ Write(IF HasDebugLine(raw) THEN << Chunk(w, "debug") >> ELSE << >>,
                       << >>)
              /\ SetCur(w, [Fresh EXCEPT !.ioOk = outOk /\ errOk,
                                         !.result = codeOk /\ outOk /\ errOk])
              /\ Goto(w, AfterChecks(badJSON))
    /\ UNCHANGED << pvars, svars, cvars, ovars, failed, debug, q, unfinished, mainPc, mainI, wmod, widx,
                    redirectLock, redirect, results, taken, started, ended >>

\* run_subprocess, the except TypeError branch: module_lock.acquire(),
\* print_divider(), print_error("Command arguments contain unsupported
\* types"), return False
ReportUnsupported(w) ==
    /\ wpc[w] = "mlock"
    /\ cur[w].kind = "run_unsupported"
    /\ Locked(w, TRUE)
    /\ SetCur(w, [Fresh EXCEPT !.result = FALSE])
    /\ Goto(w, "print_result")
    /\ Silent
    /\ UNCHANGED << pvars, svars, cvars, ovars, failed, debug, q, unfinished, mainPc, mainI, wmod, widx,
                    redirectLock, redirect, results, taken, started, ended >>

\* check_output: err("Invalid JSON supplied in test ..."); return False
ErrInvalidJSON(w) ==
    /\ wpc[w] = "err_json"
    /\ Write(<< >>, << Chunk(w, "msg") >>)
    /\ Goto(w, "print_result")
    /\ UNCHANGED << pvars, svars, cvars, ovars, failed, debug, q, unfinished, mainPc, mainI, wmod, widx, cur,
                    redirectLock, moduleLock, redirect, results, taken,
                    started, ended >>

\* ------------------------------------------- run_module, after the runner
\* A run_module that goes on to the next symbol with the result neither
\* printed nor counted.
PrintResultDeferred(w) ==
    /\ wpc[w] = "print_result"
    /\ moduleLock.owner = w
    /\ moduleLock' = Release(moduleLock, w)
    /\ widx' = [widx EXCEPT ![w] = @ + 1]
    /\ SetCur(w, Fresh)
    /\ Goto(w, "next")
    /\ Silent
    /\ UNCHANGED << pvars, svars, cvars, ovars, failed, debug, q, unfinished, mainPc, mainI, wmod,
                    redirectLock, redirect, results, taken, started, ended >>

\* print_result(packageName, mod.__name__, symName, result) under
\* redirect_lock, then module_lock.release(). RLock.release() raises
\* RuntimeError when the calling thread does not own the lock.
PrintResult(w) ==
    /\ wpc[w] = "print_result"
    /\ CanAcquire(redirectLock, w)
    /\ Write(<< Chunk(w, "msg") >>, << >>)
    /\ IF moduleLock.owner = w
       THEN /\ moduleLock' = Release(moduleLock, w)
            /\ Goto(w, "count")
       ELSE /\ Goto(w, "dead_release")
            /\ UNCHANGED moduleLock
    /\ SetCur(w, [Fresh EXCEPT !.result = cur[w].result])
    /\ UNCHANGED << pvars, svars, cvars, ovars, failed, debug, q, unfinished, mainPc, mainI, wmod, widx,
                    redirectLock, redirect, results, taken, started, ended >>

\* add_failure / add_success: (self.code = 1;) the read of self.total += 1
CountRead(w) ==
    /\ wpc[w] = "count"
    /\ results' = [results EXCEPT !.code = IF cur[w].result THEN @ ELSE 1]
    /\ SetCur(w, [cur[w] EXCEPT !.tmp = results.total])
    /\ Goto(w, "count_total")
    /\ Silent
    /\ UNCHANGED << pvars, svars, cvars, ovars, failed, debug, q, unfinished, mainPc, mainI, wmod, widx,
                    redirectLock, moduleLock, redirect, taken, started, ended >>

\* the store of self.total += 1; add_success returns here
CountTotal(w) ==
    /\ wpc[w] = "count_total"
    /\ results' = [results EXCEPT !.total = cur[w].tmp + 1]
    /\ IF cur[w].result
       THEN TestEnd(w)
       ELSE /\ Goto(w, "count_failures")
            /\ SetCur(w, [cur[w] EXCEPT !.tmp = 0])
            /\ UNCHANGED << widx, ended, failed >>
    /\ Silent
    /\ UNCHANGED << pvars, svars, cvars, ovars, debug, q, unfinished, mainPc, mainI, wmod, redirectLock,
                    moduleLock, redirect, taken, started >>

\* the read of self.failures += 1
CountFailuresRead(w) ==
    /\ wpc[w] = "count_failures"
    /\ SetCur(w, [cur[w] EXCEPT !.tmp = results.failures])
    /\ Goto(w, "count_failures_store")
    /\ Silent
    /\ UNCHANGED << pvars, svars, cvars, ovars, failed, debug, q, unfinished, mainPc, mainI, wmod, widx,
                    redirectLock, moduleLock, redirect, results, taken,
                    started, ended >>

\* the store of self.failures += 1
CountFailuresStore(w) ==
    /\ wpc[w] = "count_failures_store"
    /\ results' = [results EXCEPT !.failures = cur[w].tmp + 1]
    /\ TestEnd(w)
    /\ Silent
    /\ UNCHANGED << pvars, svars, cvars, ovars, debug, q, unfinished, mainPc, mainI, wmod, redirectLock,
                    moduleLock, redirect, taken, started >>

\* ------------------------------------------------------------------- Next
Worker(w) ==
    \/ Get(w)
    \/ Finish(w)
    \/ SkipDisabled(w)
    \/ RedirectOutput(w)
    \/ TestBody(w)
    \/ StartSubprocess(w)
    \/ StartBatch(w)
    \/ ErrBatch(w)
    \/ Checks(w)
    \/ CheckProcess(w)
    \/ ReportUnsupported(w)
    \/ ErrInvalidJSON(w)
    \/ PrintResult(w)
    \/ CountRead(w)
    \/ CountTotal(w)
    \/ CountFailuresRead(w)
    \/ CountFailuresStore(w)

MainThread == MainHeader \/ MainSpawn \/ MainPut \/ MainJoin \/ MainPrint

NextModules == MainThread \/ \E w \in Workers : Worker(w)

SpecModules == InitModules /\ [][NextModules]_<< vars, pvars, svars, cvars, ovars >>

\* The scheduler lets every thread that can run do so: a lock that is free
\* again and again is granted, a thread that is not blocked runs on.
SpecModulesFair ==
    /\ SpecModules
    /\ WF_<< vars, pvars, svars, cvars, ovars >>(MainThread)
    /\ \A w \in Workers : WF_<< vars, pvars, svars, cvars, ovars >>(Worker(w))

\* ================================================== properties, run_modules
\* Thread w is inside a test body with the capture active: between
\* redirect_output() and restore_output() of run_test.
InCapture(w) == wpc[w] = "body"

\* C1. Mutual exclusion of captures: at no time are two workers inside a
\* test body with capture active, and the worker that is inside is the one
\* that holds redirect_lock and installed the Redirect.
C1_MutualExclusion ==
    /\ \A w1, w2 \in Workers : (InCapture(w1) /\ InCapture(w2)) => w1 = w2
    /\ \A w \in Workers :
          InCapture(w) => /\ redirectLock.owner = w
                          /\ redirect = w
                          /\ sysStreams = "fake"

\* One worker is inside a test body while another has reached a test_
\* symbol of its own module and has to wait.
C1_Witness ==
    \E w1, w2 \in Workers :
        /\ w1 # w2
        /\ InCapture(w1)
        /\ AtSymbol(w2)
        /\ ~RedirectOutputMayProceed(w2)

\* C2. No cross-contamination: what restore_output() hands to run_test as
\* the captured stdout and stderr of a test holds only what the thread
\* running that test wrote.
C2_NoCrossContamination ==
    \A w \in Workers :
        (wpc[w] = "mlock" /\ cur[w].kind = "test")
            => OnlyOwn(cur[w].out, w) /\ OnlyOwn(cur[w].err, w)

\* Thread w is at a write to sys.stdout / sys.stderr: inside a test body, or
\* at one of the err(...) calls of check_output and run_batch.
Writing(w) == wpc[w] \in {"body", "err_json", "err_batch"}

\* C3. Exclusive ownership of the stream pair: a worker that writes to
\* sys.stdout / sys.stderr holds redirect_lock.
C3_WritesHoldLock ==
    \A w \in Workers : Writing(w) => redirectLock.owner = w

\* The place of a symbol in the module's definition order.
Position(m, name) ==
    CHOOSE k \in 1..Len(DeclaredSymbols(m)) : DeclaredSymbols(m)[k] = name

\* C4. Declaration order: the tests of a module are started in the order
\* their symbols are defined in the module, and a test is started only after
\* every test started before it was completed.
C4_DeclarationOrder ==
    \A m \in Modules :
        /\ \A i, j \in 1..Len(started[m]) :
              i < j => Position(m, started[m][i]) < Position(m, started[m][j])
        /\ Len(ended[m]) <= Len(started[m])
        /\ Len(started[m]) <= Len(ended[m]) + 1
        /\ \A i \in 1..Len(ended[m]) : ended[m][i] = started[m][i]

\* A module whose first-defined test sorts after its second one has
\* completed the first and started the second.
C4_Witness ==
    \E m \in Modules :
        /\ DeclaredSymbols(m)[1] > DeclaredSymbols(m)[2]
        /\ Len(started[m]) >= 2
        /\ started[m][1] = DeclaredSymbols(m)[1]
        /\ started[m][2] = DeclaredSymbols(m)[2]
        /\ Len(ended[m]) = 1

\* C5. Intra-module seriality: no module is taken from the queue twice, no
\* two workers hold the same module, no test of a module is started twice,
\* and when run_modules returns every module was taken exactly once.
C5_ModuleSeriality ==
    /\ \A m \in Modules : taken[m] <= 1
    /\ \A w1, w2 \in Workers :
          (w1 # w2 /\ wmod[w1] # NoModule) => wmod[w1] # wmod[w2]
    /\ \A m \in Modules : \A i, j \in 1..Len(started[m]) :
          i # j => started[m][i] # started[m][j]
    /\ mainPc = "done" => \A m \in Modules : taken[m] = 1

\* Two workers run tests of two different modules at the same time.
C5_Witness ==
    \E w1, w2 \in Workers :
        /\ w1 # w2
        /\ wmod[w1] # NoModule /\ wmod[w2] # NoModule
        /\ wpc[w1] = "mlock" /\ wpc[w2] = "mlock"
        /\ \A m \in Modules : taken[m] = 1

\* run_test returned for a test of thread w, and run_module is about to
\* call print_result with its verdict (and add_failure / add_success after).
Reporting(w) == wpc[w] \in {"err_json", "print_result"}

\* C6, as stated. Every in-process test whose body raised is reported as
\* failed.
C6_RaisingTestFails ==
    \A w \in Workers : (Reporting(w) /\ cur[w].exc) => ~cur[w].result

\* C6, amended. An in-process test whose body raised is never reported as
\* passed unless the module declares result_<suffix> = None: without that
\* declaration print_result is handed False and add_failure follows.
C6_RaisingTestFailsUnlessNoneDeclared ==
    \A w \in Workers :
        (Reporting(w) /\ cur[w].exc /\ ~cur[w].declNone) => ~cur[w].result

\* A test whose body raised, with no result_<suffix> = None declared, is
\* about to be printed as FAIL.
C6_Witness ==
    \E w \in Workers :
        /\ wpc[w] = "print_result"
        /\ cur[w].exc
        /\ ~cur[w].declNone
        /\ cur[w].ioOk
        /\ ~cur[w].result

\* C7. Exception containment, continuation: no worker thread is ended by an
\* exception that a test body raised.
C7_BodyExceptionContained ==
    \A w \in Workers : wpc[w] # "dead_exit"

C9_RunModulesCompletes == mainPc = "done" \/ ENABLED NextModules

\* C19. Guaranteed release: a worker that is not inside a test body, whether
\* the body returned, raised, or ended the thread, does not own redirect_lock
\* and has no Redirect installed, and while no worker is inside a test body
\* sys.stdout and sys.stderr are the real streams.
C19_GuaranteedRelease ==
    /\ \A w \in Workers :
          ~InCapture(w) => (redirectLock.owner # w /\ redirect # w)
    /\ (\A w \in Workers : ~InCapture(w)) => sysStreams = "real"

\* C24. Malformed JSON under a JSONFilter expectation: check_output returns
\* False to a runner that still holds module_lock, the verdict handed on is
\* False, and from there the test is printed and counted as failed once, its
\* symbol is not started again, and the worker is back at the for loop of
\* run_module, one symbol further.
C24_MalformedJSONFailsOnce ==
    [][\A w \in Workers :
          LET m == wmod[w]
              verdict == {"err_json", "print_result", "count", "count_total",
                          "count_failures", "count_failures_store"}
          IN  /\ (wpc[w] # "err_json" /\ wpc'[w] = "err_json")
                    => (wpc[w] = "mlock" /\ ~cur'[w].result /\ moduleLock'.owner = w)
              /\ (wpc[w] = "err_json" /\ wpc'[w] # "err_json")
                    => (wpc'[w] = "print_result" /\ moduleLock'.owner = w)
              /\ (wpc[w] \in verdict /\ ~cur[w].result /\ wpc'[w] # wpc[w]
                     /\ (wpc[w] = "print_result" => moduleLock.owner = w))
                    => /\ started' = started
                       /\ wmod' = wmod
                       /\ IF wpc'[w] \in verdict
                          THEN /\ ~cur'[w].result
                               /\ failed' = failed
                               /\ ended' = ended
                               /\ widx' = widx
                          ELSE /\ wpc'[w] = "next"
                               /\ failed' = failed + 1
                               /\ ended' = [ended EXCEPT ![m] =
                                              Append(@, started[m][Len(started[m])])]
                               /\ widx' = [widx EXCEPT ![w] = @ + 1]
    ]_<< vars, pvars, svars, cvars, ovars >>

\* check_output has caught json.JSONDecodeError for the first test of a
\* module and is about to return False; the module has a test left.
C24_Witness ==
    \E w \in Workers :
        /\ wpc[w] = "err_json"
        /\ ~cur[w].result
        /\ widx[w] < Len(SymNames(wmod[w]))
        /\ failed = 0

\* C26. Subprocess launch failure: a run_ or batch_ runner that meets an
\* argument list with a non-string value does not end its thread; it takes
\* module_lock to report the problem and hands False to run_module.
C26_UnsupportedArgumentsReported ==
    \A w \in Workers :
        /\ wpc[w] # "dead_join"
        /\ cur[w].kind = "run_unsupported" => wpc[w] = "mlock"

\* C27. Disabled tests: the step that skips a symbol starts no test, ends
\* none, counts nothing and takes no lock, and the tests that are started
\* are started in the order of their definition, each at most once.
C27_DisabledSkipped ==
    /\ [](\A m \in Modules :
            /\ Len(started[m]) <= TestsPerModule
            /\ \A i, j \in 1..Len(started[m]) :
                  i < j => Position(m, started[m][i]) < Position(m, started[m][j]))
    /\ [][\A w \in Workers :
            (wpc[w] = "next" /\ wpc'[w] = "next" /\ wmod'[w] = wmod[w]
                /\ widx'[w] = widx[w] + 1)
               => UNCHANGED << started, ended, failed, results, cur,
                               redirectLock, moduleLock, redirect, unfinished, q >>
       ]_<< vars, pvars, svars, cvars, ovars >>

\* A worker is through the symbols of its module: the first-defined test was
\* skipped, the second one was run and counted.
C27_Witness ==
    \E w \in Workers :
        /\ wmod[w] # NoModule
        /\ wpc[w] = "next"
        /\ widx[w] > TestsPerModule
        /\ started[wmod[w]] = << DeclaredSymbols(wmod[w])[2] >>
        /\ ended[wmod[w]] = started[wmod[w]]
        /\ results.total >= 1

\* C29. Debug-line culling: the captured text handed to the checks of an
\* in-process test holds no debug line, and a debug line culled from the
\* output of a child process is not written to a stream that captures: with
\* the harness's own dbg() off, the only debug lines in a fake stream are
\* those of the thread that installed it.
C29_CulledToRealStream ==
    /\ \A w \in Workers :
          (wpc[w] = "mlock" /\ cur[w].kind = "test")
             => \A i \in 1..Len(cur[w].out) : cur[w].out[i].kind # "debug"
    /\ ~debug =>
          \A i \in 1..Len(fakeOut) :
              fakeOut[i].kind = "debug" => fakeOut[i].who = redirect

C31_WorkerLifecycle ==
    /\ \A w \in Workers :
          (~ENABLED Worker(w) /\ wpc[w] \notin DeadPcs \cup {"idle"})
             => \/ wpc[w] = "get"
                \/ ~CanAcquire(redirectLock, w)
    /\ mainPc = "done" => \A w \in Workers : wpc[w] # "get"

\* C34. module_lock is balanced: a worker back in run_module from a runner,
\* about to print the result, holds module_lock exactly once; the release
\* after print_result never fails; and past the release the worker does not
\* own the lock.
C34_ModuleLockBalanced ==
    \A w \in Workers :
       /\ wpc[w] = "print_result" => moduleLock = [owner |-> w, count |-> 1]
       /\ wpc[w] # "dead_release"
       /\ wpc[w] \in {"get", "next", "count", "count_total", "count_failures",
                      "count_failures_store"} => moduleLock.owner # w

\* C35. Atomic reporting block: a worker that has produced the diagnostics
\* of its test and has its pass/FAIL line still to print holds module_lock,
\* and no two workers are at that point together.
C35_AtomicReporting ==
    \A w \in Workers :
       wpc[w] \in {"err_json", "print_result"} =>
          /\ moduleLock.owner = w
          /\ \A v \in Workers \ {w} : wpc[v] \notin {"err_json", "print_result"}

\* C36. Deadlock freedom of the two locks: when some worker has work left (a
\* module in hand, or a module waiting on the queue), one of those workers
\* can take a step; and a worker that holds module_lock and needs
\* redirect_lock for its pass/FAIL line gets it.
C36_NoLockDeadlock ==
    /\ [](LET HasWork(w) == \/ wpc[w] \notin DeadPcs \cup {"idle", "get"}
                            \/ wpc[w] = "get" /\ q # << >>
          IN  (\E w \in Workers : HasWork(w))
                 => \E w \in Workers : HasWork(w) /\ ENABLED Worker(w))
    /\ \A w \in Workers :
          (wpc[w] = "print_result" /\ moduleLock.owner = w)
             ~> (wpc[w] # "print_result")

\* C37. Redirect state: `redirect` is set exactly while some worker is
\* between redirect_output() and restore_output(), running the body of its
\* test; while it is None sys.stdout / sys.stderr are the streams the process
\* started with; and the assertion of restore_output never fails.
C37_RedirectState ==
    /\ redirect # NoThread <=> \E w \in Workers : wpc[w] = "body"
    /\ redirect = NoThread => sysStreams = "real"
    /\ \A w \in Workers : wpc[w] # "dead_assert"

\* C38. Count sanity: whatever the interleaving of the workers' updates, the
\* TestResults of the run has 0 <= failures <= total, and its code is 0 or 1.
C38_CountSanity ==
    /\ 0 <= results.failures
    /\ results.failures <= results.total
    /\ results.code \in {0, 1}

\* C39. Reporting order: while a worker is in a test of its module, every
\* test of that module started before it has had its pass/FAIL line printed
\* and its outcome counted; between two tests every started test has; and
\* once the summary line of the run is printed no worker has a module in
\* hand and every test that was started has been printed and counted.
C39_ReportingOrder ==
    /\ \A w \in Workers :
          wmod[w] # NoModule =>
             /\ ended[wmod[w]] = SubSeq(started[wmod[w]], 1, Len(ended[wmod[w]]))
             /\ Len(started[wmod[w]]) - Len(ended[wmod[w]])
                   = IF wpc[w] \in {"next", "get"} THEN 0
                     ELSE IF wpc[w] \in {"dead_typecheck", "dead_join"} THEN 0
                     ELSE 1
    /\ mainPc = "done" =>
          /\ \A w \in Workers : wmod[w] = NoModule /\ wpc[w] = "get"
          /\ \A m \in Modules : taken[m] = 1 /\ ended[m] = started[m]

\* The summary line is printed after a module ran both of its tests.
C39_Witness ==
    /\ mainPc = "done"
    /\ \E m \in Modules : Len(ended[m]) = TestsPerModule

\* ============================================ properties, the accumulators
RECURSIVE SumLen(_, _)
\* The number of tests counted in modules 1..n.
SumLen(f, n) == IF n = 0 THEN 0 ELSE Len(f[n]) + SumLen(f, n - 1)

\* C11. Exactly-once outcomes and exact counts: when run_modules returns,
\* every test that was started has its one outcome, results.total is the
\* number of tests and results.failures the number of those that failed.
C11_ExactCounts ==
    mainPc = "done" =>
        /\ \A m \in Modules : ended[m] = started[m]
        /\ results.total = SumLen(ended, NumModules)
        /\ results.failures = failed

\* Thread w is inside add_success / add_failure, between the read and the
\* store of a `+= 1`.
Updating(w) == wpc[w] \in {"count_total", "count_failures_store"}

\* Thread w is at or inside add_success / add_failure.
Counting(w) ==
    wpc[w] \in {"count", "count_total", "count_failures", "count_failures_store"}

\* C12. Locked accumulator updates: a worker that updates the shared
\* TestResults holds a lock, and the read-modify-write updates of two
\* workers never overlap.
C12_LockedUpdates ==
    /\ \A w \in Workers :
          Counting(w) => (moduleLock.owner = w \/ redirectLock.owner = w)
    /\ \A w1, w2 \in Workers : (Updating(w1) /\ Updating(w2)) => w1 = w2

\* ================================== TestResults and summarize_results
\* A summary whose code is that of the last child.
CodeOfLast(rs) == rs[Len(rs)].code

\* An add_failure that leaves self.code alone.
add_failure_keeps_code(r) == [r EXCEPT !.total = @ + 1, !.failures = @ + 1]

\* TestResults.add_success: self.total += 1
add_success(r) == [r EXCEPT !.total = @ + 1]

\* TestResults.add_failure: self.code = 1; self.total += 1;
\* self.failures += 1
add_failure(r) == [r EXCEPT !.code = 1, !.total = @ + 1, !.failures = @ + 1]

RECURSIVE SumTotals(_), SumFailures(_), MaxCodeFrom(_, _)
\* sum([result.total for result in results])
SumTotals(rs) == IF rs = << >> THEN 0 ELSE Head(rs).total + SumTotals(Tail(rs))

\* sum([result.failures for result in results])
SumFailures(rs) ==
    IF rs = << >> THEN 0 ELSE Head(rs).failures + SumFailures(Tail(rs))

MaxCodeFrom(rs, best) ==
    IF rs = << >> THEN best
    ELSE MaxCodeFrom(Tail(rs), IF Head(rs).code > best THEN Head(rs).code ELSE best)

\* max([result.code for result in results]), for a non-empty list
MaxCode(rs) == MaxCodeFrom(Tail(rs), Head(rs).code)

\* summarize_results(name, *results)
summarize_results(rs) ==
    IF Len(rs) = 0
    THEN [total |-> 0, failures |-> 0, code |-> 0]
    ELSE [total |-> SumTotals(rs), failures |-> SumFailures(rs), code |-> MaxCode(rs)]

\* =========================================================== run_packages
\* for threadNum in range(PACKAGE_THREAD_COUNT)
PackageWorkers == 1..(IF legacy THEN LEGACY_PACKAGE_THREAD_COUNT
                                ELSE PACKAGE_THREAD_COUNT)

\* A call of run_packages begins, with nothing else going on in the process.
PackagesAtStart(isLegacy, at) ==
    /\ ModulesAtStart
    /\ SummaryIdle
    /\ CaptureIdle
    /\ CheckIdle
    /\ legacy = isLegacy
    /\ pn \in 1..NumPackages
    /\ pq = << >>
    /\ punfinished = 0
    /\ pmainPc = at
    /\ pmainI = 0
    /\ ppc = [w \in 1..(IF isLegacy THEN LEGACY_PACKAGE_THREAD_COUNT
                                    ELSE PACKAGE_THREAD_COUNT) |-> "idle"]
    /\ ppkg = [w \in 1..(IF isLegacy THEN LEGACY_PACKAGE_THREAD_COUNT
                                     ELSE PACKAGE_THREAD_COUNT) |-> NoPackage]
    /\ presults = << >>
    /\ ptaken = [p \in Packages |-> 0]
    /\ pSummary = NewTestResults
    /\ pexit = NotExited

InitPackages == PackagesAtStart(FALSE, "spawn")

InitPackagesLegacy == PackagesAtStart(TRUE, "spawn")

\* for threadNum in range(PACKAGE_THREAD_COUNT): Thread(...).start()
PkgSpawn ==
    /\ pmainPc = "spawn"
    /\ ppc' = [w \in PackageWorkers |-> "get"]
    /\ pmainPc' = "put"
    /\ UNCHANGED << vars, svars, cvars, ovars, pexit, pSummary, legacy, pn, pq, punfinished, pmainI, ppkg, presults, ptaken >>

\* for package in packageMap.values(): q.put(package)
PkgPut ==
    /\ pmainPc = "put"
    /\ IF pmainI < pn
       THEN /\ pq' = Append(pq, pmainI + 1)
            /\ punfinished' = punfinished + 1
            /\ pmainI' = pmainI + 1
            /\ UNCHANGED pmainPc
       ELSE /\ pmainPc' = "join"
            /\ UNCHANGED << pq, punfinished, pmainI >>
    /\ UNCHANGED << vars, svars, cvars, ovars, pexit, pSummary, legacy, pn, ppc, ppkg, presults, ptaken >>

\* q.join()
PkgJoin ==
    /\ pmainPc = "join"
    /\ punfinished = 0
    /\ pmainPc' = "summarize"
    /\ UNCHANGED << vars, svars, cvars, ovars, pexit, pSummary, legacy, pn, pq, punfinished, pmainI, ppc, ppkg, presults,
                    ptaken >>

\* summary = summarize_results(suiteName, *results); summary.print();
\* return summary
PkgSummarize ==
    /\ pmainPc = "summarize"
    /\ pSummary' = summarize_results([i \in 1..Len(presults) |-> presults[i].result])
    /\ pmainPc' = "done"
    /\ UNCHANGED << vars, svars, cvars, ovars, pexit, legacy, pn, pq, punfinished, pmainI, ppc, ppkg,
                    presults, ptaken >>

\* worker: pkg = q.get(). The workers are interchangeable: the waiting one
\* with the lowest number stands for whichever thread the queue wakes.
PkgGet(w) ==
    /\ ppc[w] = "get"
    /\ \A v \in PackageWorkers : v < w => ppc[v] # "get"
    /\ pq # << >>
    /\ ppkg' = [ppkg EXCEPT ![w] = Head(pq)]
    /\ pq' = Tail(pq)
    /\ ppc' = [ppc EXCEPT ![w] = "run"]
    /\ UNCHANGED << vars, svars, cvars, ovars, pexit, pSummary, legacy, pn, punfinished, pmainPc, pmainI, presults, ptaken >>

\* What package.run() can do: return the TestResults of a run in which every
\* test passed ("pass") or in which a test failed ("fail"), raise an exception
\* derived from Exception ("raise"), or raise one that is not, such as
\* SystemExit or KeyboardInterrupt ("exit").
PackageOutcomes == {"pass", "fail", "raise", "exit"}

\* except Exception as ex: result = TestResults(""); result.add_failure()
SyntheticResult == add_failure(NewTestResults)

\* The `result` of run_package for an outcome of package.run() that
\* run_package survives.
PackageResult(outcome) ==
    CASE outcome = "pass" -> add_success(NewTestResults)
      [] outcome = "fail" -> add_failure(add_success(NewTestResults))
      [] outcome = "raise" -> SyntheticResult

\* How many of its modules package.run() ran. run() is
\*     from . import mytestmodule; from . import anothermodule
\*     return run_modules("package name", locals())
\* so an exception raised by one of the imports leaves run() before
\* run_modules is called.
ModulesRun(outcome) ==
    IF outcome \in {"raise", "exit"} THEN 0 ELSE ModulesPerPackage

\* How many module-worker threads package.run() left behind. run_modules
\* starts MODULE_THREAD_COUNT daemon threads whatever the number of modules;
\* their target is `while True: mod = q.get(); ...` on a queue nothing closes,
\* so they are alive, waiting in q.get(), after run_modules has returned.
ModuleWorkersStarted(outcome) ==
    IF outcome \in {"raise", "exit"} THEN 0 ELSE MODULE_THREAD_COUNT

\* run_package(pkg, res): package.run() returns a TestResults, or raises an
\* Exception and a TestResults with one failure takes its place; either way
\* results.append(result). An exception that is not an Exception leaves
\* run_package and worker, and ends the thread.
PkgRun(w) ==
    /\ ppc[w] = "run"
    /\ \E outcome \in PackageOutcomes :
          IF outcome = "exit"
          THEN /\ ppc' = [ppc EXCEPT ![w] = "dead"]
               /\ UNCHANGED presults
          ELSE /\ presults' = Append(presults, [pkg |-> ppkg[w], outcome |-> outcome,
                                                modulesRun |-> ModulesRun(outcome),
                                                workers |-> ModuleWorkersStarted(outcome),
                                                result |-> PackageResult(outcome)])
               /\ ppc' = [ppc EXCEPT ![w] = "task_done"]
    /\ ptaken' = [ptaken EXCEPT ![ppkg[w]] = @ + 1]
    /\ UNCHANGED << vars, svars, cvars, ovars, pexit, pSummary, legacy, pn, pq, punfinished, pmainPc,
                    pmainI, ppkg >>

\* worker: q.task_done(). In src/src/rjtools/util/testing.py the body of
\* worker is a `while True:` loop; in src/testing.py it is not, and the
\* thread's target returns.
PkgTaskDone(w) ==
    /\ ppc[w] = "task_done"
    /\ punfinished' = punfinished - 1
    /\ ppkg' = [ppkg EXCEPT ![w] = NoPackage]
    /\ ppc' = [ppc EXCEPT ![w] = IF legacy THEN "ended" ELSE "get"]
    /\ UNCHANGED << vars, svars, cvars, ovars, pexit, pSummary, legacy, pn, pq, pmainPc, pmainI, presults, ptaken >>

PackageWorker(w) == PkgGet(w) \/ PkgRun(w) \/ PkgTaskDone(w)

PackagesCaller == PkgSpawn \/ PkgPut \/ PkgJoin \/ PkgSummarize

NextPackages == PackagesCaller \/ \E w \in PackageWorkers : PackageWorker(w)

SpecPackages == InitPackages /\ [][NextPackages]_<< vars, pvars, svars, cvars, ovars >>

SpecPackagesLegacy == InitPackagesLegacy /\ [][NextPackages]_<< vars, pvars, svars, cvars, ovars >>

\* ============================================================== run_suite
\* An exit that always reports success.
ExitsWithZero(result) == 0

\* sys.exit(arg) for an int: the process ends with that status.
SysExitStatus(result) == result.code

\* The interpreter's status for a main thread ended by an uncaught exception.
UncaughtExceptionStatus == 1

\* run_suite is called from __main__.py.
InitSuite == PackagesAtStart(FALSE, "suite")

\* if not isinstance(mainmod.run, FunctionType): raise ValueError(...);
\* init_testing(); result = mainmod.run(), with `run` calling run_packages.
SuiteStart ==
    /\ pmainPc = "suite"
    /\ \E isFunction \in BOOLEAN :
          IF isFunction
          THEN /\ pmainPc' = "spawn"
               /\ UNCHANGED pexit
          ELSE /\ pmainPc' = "raised"
               /\ pexit' = UncaughtExceptionStatus
    /\ UNCHANGED << vars, svars, cvars, ovars, pSummary, legacy, pn, pq, punfinished, pmainI, ppc, ppkg,
                    presults, ptaken >>

\* sys.exit(result.code)
SuiteExit ==
    /\ pmainPc = "done"
    /\ pexit' = SysExitStatus(pSummary)
    /\ pmainPc' = "exited"
    /\ UNCHANGED << vars, svars, cvars, ovars, pSummary, legacy, pn, pq, punfinished, pmainI, ppc, ppkg,
                    presults, ptaken >>

NextSuite == SuiteStart \/ NextPackages \/ SuiteExit

SpecSuite == InitSuite /\ [][NextSuite]_<< vars, pvars, svars, cvars, ovars >>

\* ================================================ properties, run_packages
\* C10. Completion of a package run: no package is run twice, as long as
\* run_packages has not returned some thread can take a step, and when it
\* returns every package was run once and has its entry in results.
C10_RunPackagesCompletes ==
    /\ \A p \in Packages : ptaken[p] <= 1
    /\ pmainPc = "done" \/ ENABLED NextPackages
    /\ pmainPc = "done" =>
          /\ \A p \in 1..pn : ptaken[p] = 1
          /\ Len(presults) = pn

\* The module-worker threads alive in the process: those every finished
\* package.run() left behind.
RECURSIVE LiveFrom(_, _)
LiveFrom(rs, i) == IF i = 0 THEN 0 ELSE rs[i].workers + LiveFrom(rs, i - 1)

LiveModuleWorkers == LiveFrom(presults, Len(presults))

\* C32. Thread bound: during run_packages the module-worker threads alive are
\* at most PACKAGE_THREAD_COUNT * MODULE_THREAD_COUNT, for any number of
\* packages.
C32_ThreadBound ==
    LiveModuleWorkers <= PACKAGE_THREAD_COUNT * MODULE_THREAD_COUNT

\* ===================================== redirect_output and restore_output
\* The calls of redirect_output() and restore_output(), made in any order by
\* the threads of CaptureThreads.
InitCapture == ModulesAtStart /\ PackagesIdle /\ SummaryIdle /\ CaptureIdle /\ CheckIdle

\* redirect_output(): redirect_lock.acquire(); redirect = Redirect().
\* Redirect.__init__ saves sys.stdout / sys.stderr as real_stdout /
\* real_stderr and puts its fake streams in their place.
redirect_output(t) ==
    /\ cState[t] = "running"
    /\ Len(cObjs) < MaxCaptures
    /\ CanAcquire(cLock, t)
    /\ cLock' = Acquire(cLock, t)
    /\ cObjs' = Append(cObjs, cStdout)
    /\ cStdout' = Len(cObjs) + 1
    /\ cRedirect' = Len(cObjs) + 1
    /\ UNCHANGED << vars, pvars, svars, ovars, cState >>

\* restore_output(): assert redirect is not None; redirect.restore();
\* redirect.get_output(); redirect = None; redirect_lock.release().
\* RLock.release() raises RuntimeError in a thread that does not own it.
restore_output(t) ==
    /\ cState[t] = "running"
    /\ IF cRedirect = NoRedirect
       THEN /\ cState' = [cState EXCEPT ![t] = "AssertionError"]
            /\ UNCHANGED << cLock, cRedirect, cStdout >>
       ELSE /\ cStdout' = cObjs[cRedirect]
            /\ cRedirect' = NoRedirect
            /\ IF cLock.owner = t
               THEN /\ cLock' = Release(cLock, t)
                    /\ UNCHANGED cState
               ELSE /\ cState' = [cState EXCEPT ![t] = "RuntimeError"]
                    /\ UNCHANGED cLock
    /\ UNCHANGED << vars, pvars, svars, ovars, cObjs >>

NextCapture == \E t \in CaptureThreads : redirect_output(t) \/ restore_output(t)

SpecCapture == InitCapture /\ [][NextCapture]_<< vars, pvars, svars, cvars, ovars >>

\* =========================================== properties, the capture calls
\* C18. Capture is not reentrant: no Redirect is installed over an active
\* one, that is, the Redirect that `redirect` names saved the streams the
\* process started with, never the fake streams of another Redirect.
C18_CaptureNotReentrant ==
    cRedirect # NoRedirect => cObjs[cRedirect] = RealStreams

\* ============================================================ check_output
\* The thread whose test is checked.
Checked == 1

\* The pieces of text a fake stream can hold.
Chunks == { Chunk(t, k) : t \in Workers, k \in {"json", "debug", "part", "exc", "msg"} }

RECURSIVE SeqsUpTo(_, _)
\* The sequences over S of length n or less.
SeqsUpTo(S, n) ==
    IF n = 0 THEN { << >> }
    ELSE LET shorter == SeqsUpTo(S, n - 1)
         IN  shorter \cup { Append(s, x) : s \in shorter, x \in S }

\* A test has run with its output captured, and its module declares oDecl
\* for the channel.
InitCheck ==
    /\ ModulesAtStart
    /\ PackagesIdle
    /\ SummaryIdle
    /\ CaptureIdle
    /\ TextIdle
    /\ ArgsIdle
    /\ VerdictIdle
    /\ oRaw \in SeqsUpTo(Chunks, MaxOutput)
    /\ oDecl \in OutputDecls
    /\ oOutput = << >>
    /\ oResult = FALSE
    /\ oPc = "captured"

\* out, errout = restore_output(): get_output() culls the debug lines.
CheckRestore ==
    /\ oPc = "captured"
    /\ oOutput' = cull_debug_lines(oRaw)
    /\ oPc' = "restored"
    /\ UNCHANGED << vars, pvars, svars, cvars, tvars, avars, rvars, oRaw, oDecl, oResult >>

\* check_output(mod, testName, outName, out, "stdout")
CheckOutput ==
    /\ oPc = "restored"
    /\ oResult' = check_output(oDecl, oOutput, Checked)
    /\ oPc' = "checked"
    /\ UNCHANGED << vars, pvars, svars, cvars, tvars, avars, rvars, oRaw, oDecl, oOutput >>

NextCheck == CheckRestore \/ CheckOutput

SpecCheck == InitCheck /\ [][NextCheck]_<< vars, pvars, svars, cvars, ovars >>

\* ============================================== properties, check_output
\* C20. Absent output expectation: when the module declares no out_<suffix>
\* / err_<suffix> for the channel, check_output passes if and only if the
\* text it is given for the channel is empty.
C20_AbsentMeansEmpty ==
    (oPc = "checked" /\ oDecl = "absent") => (oResult <=> oOutput = << >>)

\* With nothing declared, a check failed over text the test wrote.
C20_Witness ==
    /\ oPc = "checked"
    /\ oDecl = "absent"
    /\ oOutput # << >>
    /\ OnlyOwn(oOutput, Checked)
    /\ ~oResult

\* ============================================= check_output, on the texts
\* Everything but the check of texts is at rest.
TextCheckOnly ==
    /\ ModulesAtStart
    /\ PackagesIdle
    /\ SummaryIdle
    /\ CaptureIdle
    /\ OutputIdle
    /\ ArgsIdle
    /\ VerdictIdle
    /\ tResult = FALSE
    /\ tPc = "call"

\* The frame of a check of texts.
TextReturns(result) ==
    /\ tPc = "call"
    /\ tResult' = result
    /\ tPc' = "returned"
    /\ UNCHANGED << vars, pvars, svars, cvars, oRaw, oDecl, oOutput, oResult, oPc,
                    avars, rvars, tKind, tExpected, tRemove, tActual >>

Newline == << "\n" >>

\* A removesuffix that takes every trailing newline, as rstrip("\n") does.
removesuffix_all(out) ==
    LET RECURSIVE Strip(_)
        Strip(s) == IF s # << >> /\ s[Len(s)] = "\n"
                    THEN Strip(SubSeq(s, 1, Len(s) - 1)) ELSE s
    IN  Strip(out)

\* out.removesuffix("\n")
removesuffix(out) ==
    IF out # << >> /\ out[Len(out)] = "\n"
    THEN SubSeq(out, 1, Len(out) - 1) ELSE out

\* checkVariants = [idVariant, leadNlVariant, endNlVariant,
\* sandwichNlVariant]
checkVariants(out) ==
    << out, removesuffix(out), Newline \o out, removesuffix(Newline \o out) >>

\* for cv in checkVariants: if cv(output) == expectedValue: result = True
LiteralMatches(output, expectedValue) ==
    \E i \in 1..4 : checkVariants(output)[i] = expectedValue

\* The characters of the texts compared literally.
LiteralChars == {"a", "A", "\n"}

\* out_<suffix> is a str, and check_output is called with an output.
InitLiteral ==
    /\ TextCheckOnly
    /\ tKind = "literal"
    /\ tRemove = {}
    /\ tExpected \in SeqsUpTo(LiteralChars, MaxText)
    /\ tActual \in SeqsUpTo(LiteralChars, MaxText)

\* check_output, the branch of an expected value that is neither Grep nor
\* JSONFilter.
CheckLiteral == tKind = "literal" /\ TextReturns(LiteralMatches(tActual, tExpected))

SpecLiteral == InitLiteral /\ [][CheckLiteral]_<< vars, pvars, svars, cvars, ovars >>

\* The characters of a Grep search and of the output it is searched in; "."
\* is the one that re reads as "any character but a newline".
GrepChars == {"a", "b", "."}

\* re.search(searchVal, output) is not None, for a pattern of GrepChars: the
\* pattern matches at some position of the output.
re_search(searchVal, output) ==
    \E i \in 1..(Len(output) - Len(searchVal) + 1) :
        \A k \in 1..Len(searchVal) :
            searchVal[k] = "." \/ searchVal[k] = output[i + k - 1]

\* out_<suffix> is a Grep, and check_output is called with an output.
InitGrep ==
    /\ TextCheckOnly
    /\ tKind = "grep"
    /\ tRemove = {}
    /\ tExpected \in SeqsUpTo(GrepChars, MaxText)
    /\ tActual \in SeqsUpTo(GrepChars, MaxText)

\* check_output, the branch `type(expectedValue) is Grep`.
CheckGrep == tKind = "grep" /\ TextReturns(re_search(tExpected, tActual))

SpecGrep == InitGrep /\ [][CheckGrep]_<< vars, pvars, svars, cvars, ovars >>

\* ------------------------------------------------------------ JSONFilter
\* A JSON text is the sequence of its tokens: "{", "}", ":", ",", a key
\* ("name", "id"), a value that is no object ("x", "y", "42"), and the
\* whitespace "\n" and " ". A JSON value is [t |-> "atom", a |-> token] or
\* [t |-> "obj", m |-> members in their order, each a [k, v]].
JsonKeys == {"name", "id"}

JsonAtoms == {"x", "y", "42"}

JsonAtom(a) == [t |-> "atom", a |-> a, m |-> << >>]

JsonObject(m) == [t |-> "obj", a |-> "", m |-> m]

\* json.loads(output): [ok |-> TRUE, v |-> the value], or ok |-> FALSE for
\* json.JSONDecodeError. Whitespace between the tokens is skipped, and
\* anything after the value is an error.
json_loads(text) ==
    LET Fail == [ok |-> FALSE, v |-> JsonAtom(""), rest |-> << >>]
        IsToken(c) == c \notin {"\n", " "}
        RECURSIVE ParseValue(_), ParseMembers(_, _)
        ParseValue(ts) ==
            IF ts = << >> THEN Fail
            ELSE IF Head(ts) \in JsonAtoms
            THEN [ok |-> TRUE, v |-> JsonAtom(Head(ts)), rest |-> Tail(ts)]
            ELSE IF Head(ts) # "{" THEN Fail
            ELSE IF Len(ts) >= 2 /\ ts[2] = "}"
            THEN [ok |-> TRUE, v |-> JsonObject(<< >>), rest |-> SubSeq(ts, 3, Len(ts))]
            ELSE ParseMembers(Tail(ts), << >>)
        ParseMembers(ts, acc) ==
            IF Len(ts) < 3 \/ ts[1] \notin JsonKeys \/ ts[2] # ":" THEN Fail
            ELSE LET r == ParseValue(SubSeq(ts, 3, Len(ts)))
                     members == Append(acc, [k |-> ts[1], v |-> r.v])
                 IN  IF ~r.ok \/ r.rest = << >> THEN Fail
                     ELSE IF Head(r.rest) = "}"
                     THEN [ok |-> TRUE, v |-> JsonObject(members), rest |-> Tail(r.rest)]
                     ELSE IF Head(r.rest) = ","
                     THEN ParseMembers(Tail(r.rest), members)
                     ELSE Fail
        parsed == ParseValue(SelectSeq(text, IsToken))
    IN  IF parsed.ok /\ parsed.rest = << >> THEN parsed ELSE Fail

\* A filter that removes the keys from the outermost object only.
filterJSONTopLevel(jsonObj, keysToRemove) ==
    LET Kept(e) == e.k \notin keysToRemove
    IN  IF jsonObj.t = "obj" THEN JsonObject(SelectSeq(jsonObj.m, Kept)) ELSE jsonObj

RECURSIVE filterJSONRecursive(_, _)
\* filterJSONRecursive: del jsonObj[key] for the keys to remove, then the
\* same for every value that is left.
filterJSONRecursive(jsonObj, keysToRemove) ==
    LET Kept(e) == e.k \notin keysToRemove
        left == SelectSeq(jsonObj.m, Kept)
    IN  IF jsonObj.t # "obj" THEN jsonObj
        ELSE JsonObject([i \in 1..Len(left) |->
                 [k |-> left[i].k, v |-> filterJSONRecursive(left[i].v, keysToRemove)]])

\* json.dumps(obj, indent=2) if pretty, else the text without any whitespace.
json_dumps(obj, pretty) ==
    LET RECURSIVE Indent(_), Dump(_, _), Members(_, _, _)
        Indent(level) == IF level = 0 THEN << >> ELSE << " ", " " >> \o Indent(level - 1)
        Line(level) == IF pretty THEN << "\n" >> \o Indent(level) ELSE << >>
        Dump(v, level) ==
            IF v.t = "atom" THEN << v.a >>
            ELSE IF v.m = << >> THEN << "{", "}" >>
            ELSE << "{" >> \o Members(v.m, 1, level + 1) \o Line(level) \o << "}" >>
        Members(m, i, level) ==
            IF i > Len(m) THEN << >>
            ELSE Line(level) \o << m[i].k, ":" >> \o (IF pretty THEN << " " >> ELSE << >>)
                     \o Dump(m[i].v, level)
                     \o (IF i < Len(m) THEN << "," >> ELSE << >>)
                     \o Members(m, i + 1, level)
    IN  Dump(obj, 0)

\* str.strip(): the text without its leading and trailing whitespace.
strip(text) ==
    LET Inner == { i \in 1..Len(text) : text[i] \notin {"\n", " "} }
        First == CHOOSE i \in Inner : \A j \in Inner : i <= j
        Last == CHOOSE i \in Inner : \A j \in Inner : i >= j
    IN  IF Inner = {} THEN << >> ELSE SubSeq(text, First, Last)

\* The objects with n members or fewer, of distinct keys and values of V.
JsonObjects(V, n) ==
    { JsonObject(m) : m \in { << >> }
        \cup (IF n < 1 THEN {} ELSE { << [k |-> k, v |-> v] >> : k \in JsonKeys, v \in V })
        \cup (IF n < 2 THEN {} ELSE
              { << [k |-> p[1], v |-> v1], [k |-> p[2], v |-> v2] >> :
                  p \in { pp \in JsonKeys \X JsonKeys : pp[1] # pp[2] },
                  v1 \in V, v2 \in V }) }

\* out_<suffix> is JSONFilter(remove, text) and check_output is called with an
\* output: a JSON document of objects nested two deep at most, printed with or
\* without whitespace, or a text that is no JSON document.
InitJSON ==
    LET atoms == { JsonAtom(a) : a \in JsonAtoms }
        inner == atoms \cup JsonObjects(atoms, 1)
        Wrapped(text) == { text, << "\n" >> \o text \o << "\n" >> }
    IN  /\ TextCheckOnly
        /\ tKind = "json"
        /\ tRemove \in { {"id"}, {"id", "name"} }
        /\ \E v \in JsonObjects(inner, 1), pretty \in BOOLEAN :
              tExpected \in Wrapped(json_dumps(v, pretty))
        /\ \/ \E v \in JsonObjects(inner, 2), pretty \in BOOLEAN :
                 tActual = json_dumps(v, pretty)
           \/ tActual \in { << >>, << "{" >>, << "{", "name", ":", "x" >>,
                            << "{", "}", "x" >> }

\* check_output, the branch of a JSONFilter: output =
\* expectedValue.applyFilter(output); expectedValue = expectedValue.text
\* (text.strip(), set by JSONFilter.__init__); json.JSONDecodeError makes it
\* return False; then the comparison of the literal branch.
CheckJSON ==
    /\ tKind = "json"
    /\ LET loaded == json_loads(tActual)
       IN  IF ~loaded.ok THEN TextReturns(FALSE)
           ELSE TextReturns(LiteralMatches(
                    json_dumps(filterJSONRecursive(loaded.v, tRemove), TRUE),
                    strip(tExpected)))

SpecJSON == InitJSON /\ [][CheckJSON]_<< vars, pvars, svars, cvars, ovars >>

\* ------------------------------------------- check_result and check_code
\* The exit codes of a child process.
ExitCodes == {"0", "1", "2"}

\* check_result / check_code is called for a value, the module declaring
\* result_<suffix> / code_<suffix> or not.
InitExpect ==
    /\ TextCheckOnly
    /\ tRemove = {}
    /\ tExpected \in {"absent"} \cup PyValues
    /\ \/ tKind = "result" /\ tActual \in PyValues
       \/ tKind = "code" /\ tActual \in ExitCodes

CheckResult == tKind = "result" /\ TextReturns(check_result(tExpected, tActual))

CheckCode == tKind = "code" /\ TextReturns(check_code(tExpected, tActual))

NextExpect == CheckResult \/ CheckCode

SpecExpect == InitExpect /\ [][NextExpect]_<< vars, pvars, svars, cvars, ovars >>

\* --------------------------------------------------- the three checks
\* What a test function returns or a module declares for result_<suffix>:
\* values of PyValues, the empty tuple and a pair.
ReturnValues == {"None", "True", "1", "()", "(1, 2)"}

\* `"%r" % value` raises TypeError when value is a tuple of a length other
\* than one: the tuple is taken for the arguments of the format.
FormatRaises(value) == value \in {"()", "(1, 2)"}

\* check_result leaves by the TypeError of `"%r" % expectedValue` or
\* `"%r" % testResult`, the arguments of print_expected_actual_mismatch in
\* its two mismatch branches.
check_result_raises(decl, testResult) ==
    IF decl # "absent"
    THEN PyNotEqual(testResult, decl) /\ (FormatRaises(decl) \/ FormatRaises(testResult))
    ELSE PyNot(testResult) /\ FormatRaises(testResult)

\* What a channel of the test holds once the debug lines are culled.
CheckedOutputs == { << >>, << Chunk(Checked, "part") >>, << Chunk(Checked, "json") >> }

\* The calls of run_test, from `result = True`, and of check_process_result.
VerdictCalls ==
    { [runner |-> "run_test", decl |-> << d, od, ed >>, actual |-> << a, o, e >>] :
        d \in {"absent"} \cup ReturnValues, od \in OutputDecls, ed \in OutputDecls,
        a \in ReturnValues, o \in CheckedOutputs, e \in CheckedOutputs }
    \cup
    { [runner |-> "check_process_result", decl |-> << d, od, ed >>,
       actual |-> << a, o, e >>] :
        d \in CodeDecls, od \in OutputDecls, ed \in OutputDecls,
        a \in ExitCodes, o \in CheckedOutputs, e \in CheckedOutputs }

InitVerdict ==
    /\ ModulesAtStart
    /\ PackagesIdle
    /\ SummaryIdle
    /\ CaptureIdle
    /\ OutputIdle
    /\ TextIdle
    /\ ArgsIdle
    /\ rCall \in VerdictCalls
    /\ rDone = << >>
    /\ rResult = TRUE
    /\ rPc = "first"

\* `if not check(...): result = False`, and on to the next statement.
VerdictChecked(name, ok, next) ==
    /\ rDone' = Append(rDone, [check |-> name, ok |-> ok])
    /\ rResult' = IF ok THEN rResult ELSE FALSE
    /\ rPc' = next
    /\ UNCHANGED << vars, pvars, svars, cvars, oRaw, oDecl, oOutput, oResult, oPc,
                    tvars, avars, rCall >>

\* run_test: if not check_result(mod, testName, resultName, testResult)
VerdictCheckResult ==
    /\ rPc = "first"
    /\ rCall.runner = "run_test"
    /\ IF check_result_raises(rCall.decl[1], rCall.actual[1])
       THEN /\ rPc' = "raised"
            /\ UNCHANGED << vars, pvars, svars, cvars, oRaw, oDecl, oOutput, oResult,
                            oPc, tvars, avars, rCall, rDone, rResult >>
       ELSE VerdictChecked("check_result",
                           check_result(rCall.decl[1], rCall.actual[1]), "stdout")

\* check_process_result: if not check_code(mod, testName, codeName, code,
\* command)
VerdictCheckCode ==
    /\ rPc = "first"
    /\ rCall.runner = "check_process_result"
    /\ VerdictChecked("check_code", check_code(rCall.decl[1], rCall.actual[1]), "stdout")

\* if not check_output(mod, testName, outName, out, "stdout")
VerdictCheckStdout ==
    /\ rPc = "stdout"
    /\ VerdictChecked("stdout", check_output(rCall.decl[2], rCall.actual[2], Checked),
                      "stderr")

\* if not check_output(mod, testName, errName, errout, "stderr")
VerdictCheckStderr ==
    /\ rPc = "stderr"
    /\ VerdictChecked("stderr", check_output(rCall.decl[3], rCall.actual[3], Checked),
                      "return")

\* return result
VerdictReturn ==
    /\ rPc = "return"
    /\ rPc' = "returned"
    /\ UNCHANGED << vars, pvars, svars, cvars, oRaw, oDecl, oOutput, oResult, oPc,
                    tvars, avars, rCall, rDone, rResult >>

NextVerdict ==
    \/ VerdictCheckResult
    \/ VerdictCheckCode
    \/ VerdictCheckStdout
    \/ VerdictCheckStderr
    \/ VerdictReturn

SpecVerdict == InitVerdict /\ [][NextVerdict]_<< vars, pvars, svars, cvars, ovars >>

\* ------------------------------- run_subprocess and run_batch, the args
\* How often run_module is called for the module.
MaxModuleRuns == 2

\* The module is loaded, and run_module is called with a commandPrefix or
\* with none.
InitArgs ==
    /\ ModulesAtStart
    /\ PackagesIdle
    /\ SummaryIdle
    /\ CaptureIdle
    /\ OutputIdle
    /\ TextIdle
    /\ VerdictIdle
    /\ aKind \in [ArgTests -> {"run", "batch_str", "batch_tuple"}]
    /\ aCaller \in {NoPrefix, Prefix(<< >>), Prefix(<< "prog" >>)}
    /\ aExt = NoPrefix
    /\ aDecl = [t \in ArgTests |-> DeclaredArgs(t)]
    /\ aIdx = 0
    /\ aCalls = 0
    /\ aLast = [test |-> 0, args |-> << >>]

\* `extendedCommandPrefix = None if commandPrefix is None else
\* commandPrefix.copy()`, and the for loop arrives at the first test.
ArgsRunModule ==
    /\ aIdx = 0
    /\ aCalls < MaxModuleRuns
    /\ aExt' = aCaller
    /\ aIdx' = 1
    /\ aCalls' = aCalls + 1
    /\ UNCHANGED << vars, pvars, svars, cvars, oRaw, oDecl, oOutput, oResult, oPc,
                    tvars, rvars, aKind, aCaller, aDecl, aLast >>

\* `if get_debug(): args.append("-g")`: the list after the statement.
AfterAppend(args) == IF debug THEN args \o << "-g" >> ELSE args

\* The for loop goes on to the next symbol, or run_module returns.
ArgsNext(t) == aIdx' = IF t = TestsPerModule THEN 0 ELSE t + 1

\* subprocess.run(args, ...)
ArgsInvoked(t, args) == aLast' = [test |-> t, args |-> args]

\* run_subprocess: `args = mod.__dict__[testName]`; with a commandPrefix
\* `args = commandPrefix + args` binds args to a new list, without one args
\* stays bound to the module's list; `if get_debug(): args.append("-g")`.
ArgsRunSubprocess(t) ==
    /\ aIdx = t
    /\ aKind[t] = "run"
    /\ IF aExt.given
       THEN /\ ArgsInvoked(t, AfterAppend(aExt.list \o aDecl[t]))
            /\ UNCHANGED aDecl
       ELSE /\ aDecl' = [aDecl EXCEPT ![t] = AfterAppend(@)]
            /\ ArgsInvoked(t, AfterAppend(aDecl[t]))
    /\ ArgsNext(t)
    /\ UNCHANGED << vars, pvars, svars, cvars, oRaw, oDecl, oOutput, oResult, oPc,
                    tvars, rvars, aKind, aCaller, aExt, aCalls >>

\* run_batch. For a str value `args = commandPrefix` binds args to
\* run_module's extendedCommandPrefix (type_check raises when it is None,
\* which ends the thread: no step; an empty one is reported and the runner
\* returns False). For a tuple `args = values[0]`, replaced by the new list
\* `commandPrefix + args` when there is a commandPrefix. Then `if
\* get_debug(): args.append("-g")`.
ArgsRunBatch(t) ==
    /\ aIdx = t
    /\ IF aKind[t] = "batch_str"
       THEN /\ aExt.given
            /\ IF Len(aExt.list) = 0
               THEN UNCHANGED << aExt, aLast >>
               ELSE /\ aExt' = [aExt EXCEPT !.list = AfterAppend(@)]
                    /\ ArgsInvoked(t, AfterAppend(aExt.list))
            /\ UNCHANGED aDecl
       ELSE /\ aKind[t] = "batch_tuple"
            /\ IF aExt.given
               THEN /\ ArgsInvoked(t, AfterAppend(aExt.list \o aDecl[t]))
                    /\ UNCHANGED aDecl
               ELSE /\ aDecl' = [aDecl EXCEPT ![t] = AfterAppend(@)]
                    /\ ArgsInvoked(t, AfterAppend(aDecl[t]))
            /\ UNCHANGED aExt
    /\ ArgsNext(t)
    /\ UNCHANGED << vars, pvars, svars, cvars, oRaw, oDecl, oOutput, oResult, oPc,
                    tvars, rvars, aKind, aCaller, aCalls >>

NextArgs ==
    \/ ArgsRunModule
    \/ \E t \in ArgTests : ArgsRunSubprocess(t) \/ ArgsRunBatch(t)

SpecArgs == InitArgs /\ [][NextArgs]_<< vars, pvars, svars, cvars, ovars >>

\* ================================ properties, check_output on the texts
\* C21. Literal expectation: check_output passes if and only if the expected
\* text is the output, the output less one trailing newline, the output after
\* a newline, or the output after a newline and less one trailing newline.
C21_LiteralVariants ==
    (tPc = "returned" /\ tKind = "literal") =>
        (tResult <=> \/ tExpected = tActual
                     \/ tActual = tExpected \o Newline
                     \/ tExpected = Newline \o tActual
                     \/ Newline \o tActual = tExpected \o Newline)

\* An output that differs from the expected text in case only was refused.
C21_Witness ==
    /\ tPc = "returned"
    /\ tKind = "literal"
    /\ tExpected = << "a", "\n" >>
    /\ tActual = << "A", "\n" >>
    /\ tResult = FALSE

\* C22. Grep expectation: the check passes if and only if the search term
\* occurs in the output as a literal substring, at any position.
C22_GrepIsContainment ==
    (tPc = "returned" /\ tKind = "grep") =>
        (tResult <=>
            \E i \in 1..(Len(tActual) - Len(tExpected) + 1) :
                SubSeq(tActual, i, i + Len(tExpected) - 1) = tExpected)

\* The value an output is read as, with the filter's keys taken out of the
\* object and out of every object that is the value of one of its members.
FilteredDocument ==
    LET Kept(e) == e.k \notin tRemove
        Shallow(w) == IF w.t = "obj" THEN JsonObject(SelectSeq(w.m, Kept)) ELSE w
        top == Shallow(json_loads(tActual).v)
    IN  IF top.t # "obj" THEN top
        ELSE JsonObject([i \in 1..Len(top.m) |->
                 [k |-> top.m[i].k, v |-> Shallow(top.m[i].v)]])

\* C23, as claimed. JSONFilter expectation: the check passes if and only if
\* the output is a JSON document and the text of the filtered document
\* without whitespace is the filter's expected text.
C23_CompactTextCompared ==
    (tPc = "returned" /\ tKind = "json") =>
        (tResult <=> /\ json_loads(tActual).ok
                     /\ json_dumps(FilteredDocument, FALSE) = strip(tExpected))

\* C23, amended. JSONFilter expectation: the check passes if and only if the
\* output is a JSON document and the text of the filtered document as
\* json.dumps(..., indent=2) lays it out is the filter's expected text.
C23_IndentedTextCompared ==
    (tPc = "returned" /\ tKind = "json") =>
        (tResult <=> /\ json_loads(tActual).ok
                     /\ json_dumps(FilteredDocument, TRUE) = strip(tExpected))

\* JSONFilter({"id"}, text) with {"name": "x"} laid out over three lines as
\* text accepted the output {"name":"x","id":42}.
C23_Witness ==
    /\ tPc = "returned"
    /\ tKind = "json"
    /\ tRemove = {"id"}
    /\ tExpected = << "\n", "{", "\n", " ", " ", "name", ":", " ", "x", "\n", "}", "\n" >>
    /\ tActual = << "{", "name", ":", "x", ",", "id", ":", "42", "}" >>
    /\ tResult = TRUE

\* C25. Result and exit-code checks: with result_<suffix> declared,
\* check_result passes if and only if the returned value equals it (True and
\* 1, False and 0 being equal values), and with none declared if and only if
\* the value is truthy; with code_<suffix> declared, check_code passes if and
\* only if the exit code equals it, and with none declared if and only if the
\* exit code is 0.
C25_ResultAndCodeChecks ==
    LET Same == { << v, v >> : v \in PyValues }
                    \cup { << "True", "1" >>, << "1", "True" >>,
                           << "False", "0" >>, << "0", "False" >> }
        Truthy == {"True", "1", "2", "'a'"}
    IN  /\ (tPc = "returned" /\ tKind = "result") =>
              (tResult <=> IF tExpected = "absent"
                           THEN tActual \in Truthy
                           ELSE << tActual, tExpected >> \in Same)
        /\ (tPc = "returned" /\ tKind = "code") =>
              (tResult <=> IF tExpected = "absent"
                           THEN tActual = "0"
                           ELSE << tActual, tExpected >> \in Same)

\* A test that returned None passed against result_<suffix> = None, where
\* an undeclared result would have to be truthy.
C25_Witness ==
    /\ tPc = "returned"
    /\ tKind = "result"
    /\ tExpected = "None"
    /\ tActual = "None"
    /\ tResult = TRUE

\* C28. Test cases are immutable: the list a run_ or batch_ symbol is bound
\* to stays as the module declares it, run_module's command prefix stays as
\* it was handed in, and every test is invoked with the prefix, its declared
\* arguments and, when debugging, the debug flag once.
C28_ArgumentsImmutable ==
    /\ \A t \in ArgTests : aDecl[t] = DeclaredArgs(t)
    /\ aExt.given => aExt.list = aCaller.list
    /\ aLast.test # 0 =>
          aLast.args = aCaller.list
                          \o (IF aKind[aLast.test] = "batch_str"
                              THEN << >> ELSE DeclaredArgs(aLast.test))
                          \o (IF debug THEN << "-g" >> ELSE << >>)

\* C33. The verdict is the conjunction of the three checks, all of them
\* evaluated: a call of run_test or check_process_result ends only by
\* returning, after its three checks have returned in order, and what it
\* returns is True exactly when check_result (check_code for a subprocess or
\* a batch), check_output of stdout and check_output of stderr all passed.
C33_VerdictIsConjunction ==
    /\ rPc # "raised"
    /\ rPc \in {"return", "returned"} =>
          /\ Len(rDone) = 3
          /\ rDone[1].check = (IF rCall.runner = "run_test"
                               THEN "check_result" ELSE "check_code")
          /\ rDone[2].check = "stdout"
          /\ rDone[3].check = "stderr"
          /\ rResult <=> /\ IF rCall.runner = "run_test"
                            THEN check_result(rCall.decl[1], rCall.actual[1])
                            ELSE check_code(rCall.decl[1], rCall.actual[1])
                         /\ check_output(rCall.decl[2], rCall.actual[2], Checked)
                         /\ check_output(rCall.decl[3], rCall.actual[3], Checked)

\* ================================================== properties, run_suite
\* Package p has its entry in results, with the given outcome.
Reported(p, outcome) ==
    \E i \in 1..Len(presults) :
        presults[i].pkg = p /\ presults[i].outcome = outcome

C16_LoadFailureCounted ==
    /\ \A p \in 1..pn : ptaken[p] > 0 => \E i \in 1..Len(presults) : presults[i].pkg = p
    /\ \A i \in 1..Len(presults) :
          presults[i].outcome = "raise" =>
              presults[i].result = [total |-> 1, failures |-> 1, code |-> 1]
    /\ pmainPc \in {"exited", "raised"} \/ ENABLED NextSuite
    /\ (pmainPc \in {"done", "exited"} /\ \E p \in 1..pn : Reported(p, "raise"))
          => pSummary.code = 1

\* C17. A failure while importing one test module of a package removes only
\* that module's tests: the package's other modules are run and their tests
\* are counted in the package's result.
C17_SiblingModulesRun ==
    \A i \in 1..Len(presults) :
        presults[i].outcome = "raise" =>
            /\ presults[i].modulesRun >= ModulesPerPackage - 1
            /\ presults[i].result.total >= presults[i].modulesRun

\* ================================ the TestResults objects and their summary
InitSummary ==
    /\ ModulesAtStart
    /\ PackagesIdle
    /\ CaptureIdle
    /\ CheckIdle
    /\ sChildren = << >>
    /\ sSummary = NewTestResults
    /\ sPc = "build"

\* TestResults(name)
SumNew ==
    /\ sPc = "build"
    /\ Len(sChildren) < MaxChildren
    /\ sChildren' = Append(sChildren, NewTestResults)
    /\ UNCHANGED << vars, pvars, cvars, ovars, sSummary, sPc >>

\* add_success() on the TestResults created last
SumAddSuccess ==
    /\ sPc = "build"
    /\ sChildren # << >>
    /\ sChildren[Len(sChildren)].total < MaxAdds
    /\ sChildren' = [sChildren EXCEPT ![Len(sChildren)] = add_success(@)]
    /\ UNCHANGED << vars, pvars, cvars, ovars, sSummary, sPc >>

\* add_failure() on the TestResults created last
SumAddFailure ==
    /\ sPc = "build"
    /\ sChildren # << >>
    /\ sChildren[Len(sChildren)].total < MaxAdds
    /\ sChildren' = [sChildren EXCEPT ![Len(sChildren)] = add_failure(@)]
    /\ UNCHANGED << vars, pvars, cvars, ovars, sSummary, sPc >>

\* summary = summarize_results(name, *results)
SumCall ==
    /\ sPc = "build"
    /\ sSummary' = summarize_results(sChildren)
    /\ sPc' = "done"
    /\ UNCHANGED << vars, pvars, cvars, ovars, sChildren >>

NextSummary == SumNew \/ SumAddSuccess \/ SumAddFailure \/ SumCall

SpecSummary == InitSummary /\ [][NextSummary]_<< vars, pvars, svars, cvars, ovars >>

\* C13. Aggregation: the summary's total is the sum of the children's
\* totals, its failures the sum of their failures, its code the largest of
\* their codes; with no children it is all zero.
C13_Aggregation ==
    sPc = "done" =>
        LET n == Len(sChildren)
            Partial[k \in 0..n] ==
                IF k = 0 THEN [total |-> 0, failures |-> 0]
                ELSE [total |-> Partial[k - 1].total + sChildren[k].total,
                      failures |-> Partial[k - 1].failures + sChildren[k].failures]
        IN  /\ sSummary.total = Partial[n].total
            /\ sSummary.failures = Partial[n].failures
            /\ n = 0 => sSummary.code = 0
            /\ n > 0 => /\ \A i \in 1..n : sChildren[i].code <= sSummary.code
                        /\ \E i \in 1..n : sChildren[i].code = sSummary.code

\* The children {total 3, failures 1} and {total 2, failures 0} were
\* summarized to {total 5, failures 1, code 1}.
C13_Witness ==
    /\ sPc = "done"
    /\ sChildren = << [total |-> 3, failures |-> 1, code |-> 1],
                      [total |-> 2, failures |-> 0, code |-> 0] >>
    /\ sSummary = [total |-> 5, failures |-> 1, code |-> 1]

\* The exit code a TestResults must carry: 1 with failures, 0 without.
CodeMatchesFailures(r) == r.code = (IF r.failures > 0 THEN 1 ELSE 0)

\* C14. Exit-code invariant: every TestResults built by calls of
\* add_success / add_failure, and every summary of such results, has code 1
\* if it has failures and code 0 if it has none.
C14_ExitCodeInvariant ==
    /\ \A i \in 1..Len(sChildren) : CodeMatchesFailures(sChildren[i])
    /\ sPc = "done" => CodeMatchesFailures(sSummary)

\* A summary with code 1 over a TestResults with a failure and one without.
C14_Witness ==
    /\ sPc = "done"
    /\ sSummary.code = 1
    /\ \E i, j \in 1..Len(sChildren) :
          /\ sChildren[i].failures > 0
          /\ sChildren[j].failures = 0 /\ sChildren[j].total > 0

====
